---- MODULE Spec2Model ----
(***************************************************************************)
(* Dive logbook: display-name registry, profile documents and the badge    *)
(* evaluator, modelled from src/services/userService.ts,                   *)
(* src/services/storageService.ts and the auth context (src/unnamed/       *)
(* part_000, second version).                                              *)
(*                                                                         *)
(* Strings are sequences of one-character strings.  A missing optional     *)
(* string (undefined) and the empty string are both <<>> wherever the code *)
(* only tests truthiness.                                                  *)
(***************************************************************************)
EXTENDS Integers, Sequences, FiniteSets, TLC

(***************************************************************************)
(* Bounds                                                                  *)
(***************************************************************************)
\* total number of AuthProvider calls other than logout started in one
\* behaviour of Spec
MaxCalls == 2
\* total number of direct reserveDisplayName calls in one behaviour of SpecReserve
MaxReserveCalls == 3
\* longest string of the exhaustive normalisation table
MaxLen == 4
\* longest dive-log list
MaxLogs == 100
\* longest dive-log list that is built from arbitrary logs at arbitrary places
MaxVaried == 3
\* most photos of a dive log
MaxPhotos == 2
\* most storage paths made for uploads
MaxUploads == 2
MaxDiveNumber == 2

(***************************************************************************)
(* Strings                                                                 *)
(***************************************************************************)
Whitespace == {" ", "\t"}
Letters == {"O", "o", "E", "e", "D", "d"}
Alphabet == {"O", "o", " ", "\t"}

\* String.prototype.toLowerCase on one character
LowerChar(c) ==
  CASE c = "O" -> "o"
    [] c = "E" -> "e"
    [] c = "D" -> "d"
    [] OTHER -> c

RECURSIVE TrimStart(_)
TrimStart(s) ==
  IF s # <<>> /\ Head(s) \in Whitespace THEN TrimStart(Tail(s)) ELSE s

RECURSIVE TrimEnd(_)
TrimEnd(s) ==
  IF s # <<>> /\ s[Len(s)] \in Whitespace
  THEN TrimEnd(SubSeq(s, 1, Len(s) - 1))
  ELSE s

\* String.prototype.trim
Trim(s) == TrimEnd(TrimStart(s))

\* String.prototype.toLowerCase
ToLowerCase(s) == [i \in 1..Len(s) |-> LowerChar(s[i])]

\* s.replace(/\s+/g, " "): every maximal run of whitespace becomes one space
RECURSIVE CollapseWhitespace(_)
CollapseWhitespace(s) ==
  IF s = <<>> THEN <<>>
  ELSE IF Head(s) \in Whitespace
       THEN <<" ">> \o CollapseWhitespace(TrimStart(s))
       ELSE <<Head(s)>> \o CollapseWhitespace(Tail(s))

\* mutant: the lowercasing step is dropped
normalizeDisplayName_NoLower(value) == CollapseWhitespace(Trim(value))

\* mutant: only a single whitespace character is replaced, runs are kept
normalizeDisplayName_NoCollapse(value) ==
  LET t == ToLowerCase(Trim(value))
  IN [i \in 1..Len(t) |-> IF t[i] \in Whitespace THEN " " ELSE t[i]]

normalizeDisplayName(value) == CollapseWhitespace(ToLowerCase(Trim(value)))

(***************************************************************************)
(* Display-name registry, profile documents, auth accounts and sessions    *)
(***************************************************************************)
Users == {"u1", "u2"}
Threads == {"api", "eff"}
Procs == Users \X Threads

\* "  Ocean Explorer  ", "ocean explorer", "Diver" and a blank name, one
\* letter per word
NameOceanPadded == <<" ", " ", "O", " ", "E", " ", " ">>
NameOceanLower == <<"o", " ", "e">>
NameDiver == <<"D">>
NameBlank == <<" ", "\t">>
DisplayNames == {NameOceanPadded, NameOceanLower, NameDiver, NameBlank}
\* names typed into the forms or carried by a Google account ("" for none)
AccountNames == {NameOceanPadded, NameOceanLower, NameDiver, <<>>}

\* document ids of the displayNames collection that the inputs can produce
Keys == {normalizeDisplayName(n) : n \in DisplayNames} \ {<<>>}

NoDoc == [exists |-> FALSE]
\* no users/{uid} document; also the null `profile` of a session
NoProfile == [exists |-> FALSE, displayName |-> <<>>, role |-> "", status |-> ""]
NoUid == "null"

\* the record written by tx.set (updatedAt left out: nothing reads it)
ReservationDoc(uid, displayName) ==
  [exists |-> TRUE, uid |-> uid, displayName |-> displayName]

\* a users/{uid} document; a field the writer did not set is "" or <<>>
ProfileDoc(displayName, role, status) ==
  [exists |-> TRUE, displayName |-> displayName, role |-> role, status |-> status]

NoAccount == [exists |-> FALSE, displayName |-> <<>>]

IdleProc ==
  [pc |-> "idle", op |-> "none", name |-> <<>>, prev |-> <<>>, vOnly |-> FALSE,
   snap |-> NoDoc, res |-> "none", profName |-> <<>>, stale |-> FALSE,
   prevUid |-> "null"]

VARIABLES
  displayNames,  \* displayNames collection: normalized key -> record
  users,         \* users collection: uid -> profile document
  auth,          \* the auth User object of each uid: account exists, displayName
  sessUser,      \* AuthProvider state `user` of each uid's browser: signed in?
  sessProfile,   \* AuthProvider state `profile` (NoDoc for null)
  profileLoading,\* AuthProvider state `profileLoading`
  subscribed,    \* profile listeners of each uid: the one the current effect
                 \* holds a handle to, and one no cleanup will ever release
  proc,          \* control state and locals of each thread
  calls          \* number of top-level calls started

regVars == <<displayNames, users, auth, sessUser, sessProfile, profileLoading,
            subscribed, proc, calls>>

\* state of the badge part of the model (declared here, described below)
VARIABLES
  logs,          \* the dive-log list handed to getUnlockedBadges
  customBadges,  \* users/{uid}/customBadges: uid -> badge id -> document
  blobs,         \* storage objects that exist (paths)
  unlocked       \* what the last getUnlockedBadges call returned

badgeVars == <<logs, customBadges, blobs, unlocked>>

\* state of the log and photo storage part of the model
VARIABLES
  logDocs,       \* users/{uid}/logs: uid -> log id -> document
  uploads,       \* number of storage paths made so far from the clock
  photoPath,     \* the photoPath field of users/{uid}
  lastOp         \* what the last log or photo call of the service did

diskVars == <<logDocs, uploads, photoPath>>

\* state of the instructor review part of the model
VARIABLES
  applications,  \* the other fields of instructorApplication in users/{uid}
  adminList,     \* the pending applications the admin dashboard shows
  review         \* the approval the admin dashboard has in flight

reviewVars == <<applications, adminList, review>>

vars == <<regVars, badgeVars, diskVars, lastOp, reviewVars>>

\* what a call did: its name, what it returned or threw, whether it reached
\* the database or the storage, whether it logged a swallowed deleteObject
\* failure, how many inline images it was given, the list it returned.  The
\* badge calls record it when they are made without a user id.
OpResult(op, outcome, io, warned, inline, result) ==
  [op |-> op, outcome |-> outcome, io |-> io, warned |-> warned,
   inline |-> inline, result |-> result]
NoOp == OpResult("none", "none", FALSE, FALSE, 0, <<>>)
\* the error of a call made without a userId
NotAuthenticated == "User not authenticated"

\* IdleProc.prevUid is a history field: the holder of the record keyed by the
\* normalized previousDisplayName when the call's transaction committed
Uid(p) == p[1]
Api(u) == <<u, "api">>
Eff(u) == <<u, "eff">>

\* JS truthiness of an optional string
Truthy(s) == s # <<>>

(***************************************************************************)
(* reserveDisplayName (userService.ts 36-75)                               *)
(***************************************************************************)
\* the uid a display name resolves to in the registry names ("null" if none)
HolderOf(names, displayName) ==
  LET k == normalizeDisplayName(displayName)
  IN IF k \in DOMAIN names /\ names[k].exists THEN names[k].uid ELSE NoUid

\* mutant: the previous reservation is never released
TxWrites_KeepPrevious(names, uid, displayName, vOnly, prev) ==
  IF vOnly THEN names
  ELSE [names EXCEPT ![normalizeDisplayName(displayName)] =
          ReservationDoc(uid, displayName)]

\* the writes buffered by the transaction body, lines 55-69, applied to names
TxWrites(names, uid, displayName, vOnly, prev) ==
  LET normalized == normalizeDisplayName(displayName)
      previousNormalized == normalizeDisplayName(prev)
      afterSet == [names EXCEPT ![normalized] = ReservationDoc(uid, displayName)]
  IN IF vOnly THEN names
     ELSE IF Truthy(prev) /\ Truthy(previousNormalized)
             /\ previousNormalized # normalized
          THEN [afterSet EXCEPT ![previousNormalized] = NoDoc]
          ELSE afterSet

\* what the caller does when reserveDisplayName settles, up to its next await:
\* registerWithEmail catches and goes on to delete the account (part_000
\* 223-226), createUserProfileIfMissing swallows the error (userService.ts
\* 97-101) and init() subscribes (part_000 202-205), the others return or throw
AfterReserve(p, rec) ==
  /\ proc' = [proc EXCEPT ![p] =
        IF rec.op = "registerWithEmail" /\ rec.res # "ok"
        THEN [rec EXCEPT !.pc = "reg_delete", !.snap = NoDoc]
        ELSE IF rec.op = "reserveDisplayName"
        THEN [rec EXCEPT !.pc = "idle", !.snap = NoDoc]
        ELSE IdleProc]
  /\ subscribed' = IF rec.op = "createUserProfileIfMissing"
                   THEN IF rec.stale
                        THEN [subscribed EXCEPT ![Uid(p)].leaked = TRUE]
                        ELSE [subscribed EXCEPT ![Uid(p)].current = TRUE]
                   ELSE subscribed

\* mutant: the empty-name check of lines 42-44 is missing
ReserveCall_NoValidation(p, op, name, prev, vOnly) ==
  /\ proc' = [proc EXCEPT ![p] =
        [IdleProc EXCEPT !.pc = "tx_get", !.op = op, !.name = name,
                         !.prev = prev, !.vOnly = vOnly,
                         !.stale = proc[p].stale]]
  /\ UNCHANGED subscribed

\* the synchronous head of reserveDisplayName, lines 41-46: normalize, reject
\* an empty key, otherwise start the transaction
ReserveCall(p, op, name, prev, vOnly) ==
  LET rec == [IdleProc EXCEPT !.op = op, !.name = name, !.prev = prev,
                              !.vOnly = vOnly, !.stale = proc[p].stale]
  IN IF ~Truthy(normalizeDisplayName(name))
     THEN AfterReserve(p, [rec EXCEPT !.res = "invalid_display_name"])
     ELSE /\ proc' = [proc EXCEPT ![p] = [rec EXCEPT !.pc = "tx_get"]]
          /\ UNCHANGED subscribed

\* mutant: the previous reservation is released before the holder check, so
\* a call that fails has already deleted it
TxGet_ReleaseFirst(p) ==
  /\ proc[p].pc = "tx_get"
  /\ LET snapshot == displayNames[normalizeDisplayName(proc[p].name)]
         existingUid == IF snapshot.exists THEN snapshot.uid ELSE NoUid
         previousNormalized == normalizeDisplayName(proc[p].prev)
     IN IF existingUid # NoUid /\ existingUid # Uid(p)
        THEN /\ AfterReserve(p, [proc[p] EXCEPT !.res = "display_name_taken"])
             /\ displayNames' = IF Truthy(previousNormalized)
                                THEN [displayNames EXCEPT ![previousNormalized] = NoDoc]
                                ELSE displayNames
        ELSE /\ proc' = [proc EXCEPT ![p].pc = "tx_commit", ![p].snap = snapshot]
             /\ UNCHANGED <<subscribed, displayNames>>
  /\ UNCHANGED <<users, auth, sessUser, sessProfile, profileLoading, calls, badgeVars, diskVars, lastOp, reviewVars>>

\* mutant: the holder check of lines 51-53 is missing
TxGet_NoHolderCheck(p) ==
  /\ proc[p].pc = "tx_get"
  /\ proc' = [proc EXCEPT ![p].pc = "tx_commit",
                          ![p].snap = displayNames[normalizeDisplayName(proc[p].name)]]
  /\ UNCHANGED <<displayNames, users, auth, sessUser, sessProfile, profileLoading, subscribed,
                 calls, badgeVars, diskVars, lastOp, reviewVars>>

\* tx.get and the transaction body, lines 47-71: a record held by another uid
\* makes the body throw, which ends the transaction without a write
TxGet(p) ==
  /\ proc[p].pc = "tx_get"
  /\ LET snapshot == displayNames[normalizeDisplayName(proc[p].name)]
         existingUid == IF snapshot.exists THEN snapshot.uid ELSE NoUid
     IN IF existingUid # NoUid /\ existingUid # Uid(p)
        THEN AfterReserve(p, [proc[p] EXCEPT !.res = "display_name_taken"])
        ELSE /\ proc' = [proc EXCEPT ![p].pc = "tx_commit", ![p].snap = snapshot]
             /\ UNCHANGED subscribed
  /\ UNCHANGED <<displayNames, users, auth, sessUser, sessProfile, profileLoading, calls, badgeVars, diskVars, lastOp, reviewVars>>

\* mutant: the commit does not verify the document it read (no transaction)
TxCommit_NoVerify(p) ==
  /\ proc[p].pc = "tx_commit"
  /\ displayNames' = TxWrites(displayNames, Uid(p), proc[p].name,
                              proc[p].vOnly, proc[p].prev)
  /\ AfterReserve(p, [proc[p] EXCEPT !.res = "ok",
                                     !.prevUid = HolderOf(displayNames, proc[p].prev)])
  /\ UNCHANGED <<users, auth, sessUser, sessProfile, profileLoading, calls, badgeVars, diskVars, lastOp, reviewVars>>

\* commit of runTransaction (line 46): the store applies the buffered writes
\* atomically if the document read is unchanged, otherwise the SDK runs the
\* body again.  Versions are compared by content; the SDK's cap on attempts
\* is not reached within MaxCalls.
TxCommit(p) ==
  /\ proc[p].pc = "tx_commit"
  /\ IF displayNames[normalizeDisplayName(proc[p].name)] # proc[p].snap
     THEN /\ proc' = [proc EXCEPT ![p].pc = "tx_get", ![p].snap = NoDoc]
          /\ UNCHANGED <<displayNames, subscribed>>
     ELSE /\ displayNames' = TxWrites(displayNames, Uid(p), proc[p].name,
                                      proc[p].vOnly, proc[p].prev)
          /\ AfterReserve(p, [proc[p] EXCEPT !.res = "ok",
                                 !.prevUid = HolderOf(displayNames, proc[p].prev)])
  /\ UNCHANGED <<users, auth, sessUser, sessProfile, profileLoading, calls, badgeVars, diskVars, lastOp, reviewVars>>

\* a direct call of the exported reserveDisplayName
ReserveDisplayName(u, name, prev, vOnly) ==
  /\ proc[Api(u)].pc = "idle"
  /\ calls < MaxReserveCalls
  /\ calls' = calls + 1
  /\ ReserveCall(Api(u), "reserveDisplayName", name, prev, vOnly)
  /\ UNCHANGED <<displayNames, users, auth, sessUser, sessProfile, profileLoading, badgeVars, diskVars, lastOp, reviewVars>>

(***************************************************************************)
(* AuthProvider (part_000 167-281)                                         *)
(***************************************************************************)
\* the profile effect runs for a signed-in user (part_000 190-207): init()
\* calls createUserProfileIfMissing, whose getDoc is then in flight
StartedEffect == [IdleProc EXCEPT !.pc = "cpm_get", !.op = "createUserProfileIfMissing"]

\* the profile effect when `user` becomes null (part_000 191-195, 208-210):
\* the cleanup releases the listener it has a handle to, profile is nulled;
\* an init() still awaiting is not cancelled
SignedOut(u, api) ==
  /\ sessUser' = [sessUser EXCEPT ![u] = FALSE]
  /\ sessProfile' = [sessProfile EXCEPT ![u] = NoProfile]
  /\ profileLoading' = [profileLoading EXCEPT ![u] = FALSE]
  /\ subscribed' = [subscribed EXCEPT ![u].current = FALSE]
  /\ proc' = [proc EXCEPT ![Api(u)] = api,
                          ![Eff(u)].stale = (proc[Eff(u)].pc # "idle")]

\* registerWithEmail up to its first await pair (part_000 217-221):
\* createUserWithEmailAndPassword creates the account and signs it in
RegisterWithEmail(u, name) ==
  /\ proc[Api(u)].pc = "idle" /\ proc[Eff(u)].pc = "idle"
  /\ ~auth[u].exists /\ ~sessUser[u]
  /\ calls < MaxCalls
  /\ calls' = calls + 1
  /\ auth' = [auth EXCEPT ![u] = [exists |-> TRUE, displayName |-> <<>>]]
  /\ sessUser' = [sessUser EXCEPT ![u] = TRUE]
  /\ proc' = [proc EXCEPT
        ![Api(u)] = IF Truthy(name)
                    THEN [IdleProc EXCEPT !.op = "registerWithEmail",
                                          !.name = name, !.pc = "reg_update"]
                    ELSE IdleProc,
        ![Eff(u)] = StartedEffect]
  /\ profileLoading' = [profileLoading EXCEPT ![u] = TRUE]
  /\ UNCHANGED <<displayNames, users, sessProfile, subscribed, badgeVars, diskVars, lastOp, reviewVars>>

\* updateProfile settles (part_000 221-223): on success the name is on the
\* User object and reserveDisplayName is called; on failure the catch runs
RegUpdateProfile(u, fails) ==
  /\ proc[Api(u)].pc = "reg_update"
  /\ IF fails
     THEN /\ proc' = [proc EXCEPT ![Api(u)].pc = "reg_delete"]
          /\ UNCHANGED <<auth, subscribed>>
     ELSE /\ auth' = [auth EXCEPT ![u].displayName = proc[Api(u)].name]
          /\ ReserveCall(Api(u), "registerWithEmail", proc[Api(u)].name, <<>>, FALSE)
  /\ UNCHANGED <<displayNames, users, sessUser, sessProfile, profileLoading, calls, badgeVars, diskVars, lastOp, reviewVars>>

\* credential.user.delete() in the catch block (part_000 223-227): the
\* account is gone, the auth state becomes null, the error is rethrown
RegDelete(u) ==
  /\ proc[Api(u)].pc = "reg_delete"
  /\ auth' = [auth EXCEPT ![u].exists = FALSE]
  /\ SignedOut(u, IdleProc)
  /\ UNCHANGED <<displayNames, users, calls, badgeVars, diskVars, lastOp, reviewVars>>

\* signInWithEmail (part_000 213-215): an existing account signs in
SignInWithEmail(u) ==
  /\ proc[Api(u)].pc = "idle" /\ proc[Eff(u)].pc = "idle"
  /\ auth[u].exists /\ ~sessUser[u]
  /\ calls < MaxCalls
  /\ calls' = calls + 1
  /\ sessUser' = [sessUser EXCEPT ![u] = TRUE]
  /\ proc' = [proc EXCEPT ![Eff(u)] = StartedEffect]
  /\ profileLoading' = [profileLoading EXCEPT ![u] = TRUE]
  /\ UNCHANGED <<displayNames, users, auth, sessProfile, subscribed, badgeVars, diskVars, lastOp, reviewVars>>

\* signInWithGoogle (part_000 231-233): the provider creates the account on
\* first sign-in, with the display name of the Google account
SignInWithGoogle(u, googleName) ==
  /\ proc[Api(u)].pc = "idle" /\ proc[Eff(u)].pc = "idle"
  /\ ~sessUser[u]
  /\ calls < MaxCalls
  /\ calls' = calls + 1
  /\ auth' = IF auth[u].exists THEN auth
             ELSE [auth EXCEPT ![u] = [exists |-> TRUE, displayName |-> googleName]]
  /\ sessUser' = [sessUser EXCEPT ![u] = TRUE]
  /\ proc' = [proc EXCEPT ![Eff(u)] = StartedEffect]
  /\ profileLoading' = [profileLoading EXCEPT ![u] = TRUE]
  /\ UNCHANGED <<displayNames, users, sessProfile, subscribed, badgeVars, diskVars, lastOp, reviewVars>>

\* logout (part_000 239-241)
Logout(u) ==
  /\ proc[Api(u)].pc = "idle"
  /\ sessUser[u]
  /\ SignedOut(u, IdleProc)
  /\ UNCHANGED <<displayNames, users, auth, calls, badgeVars, diskVars, lastOp, reviewVars>>

\* updateProfileFields (userService.ts 237-259) applied to a users document:
\* setDoc with merge writes the given fields and creates a missing document
ProfileFieldsWrite(doc, hasName, name, hasBio) ==
  IF ~hasName /\ ~hasBio THEN doc
  ELSE [doc EXCEPT !.exists = TRUE,
                   !.displayName = IF hasName THEN name ELSE doc.displayName]

\* updateAccountInfo up to the end of updateProfileFields (part_000 252-256):
\* the profile document is written first; `profile` is the value the
\* component rendered with
UpdateAccountInfo(u, hasName, name, hasBio) ==
  /\ proc[Api(u)].pc = "idle"
  /\ sessUser[u]
  /\ calls < MaxCalls
  /\ calls' = calls + 1
  /\ users' = [users EXCEPT ![u] = ProfileFieldsWrite(users[u], hasName, name, hasBio)]
  /\ proc' = [proc EXCEPT ![Api(u)] =
        IF hasName /\ Truthy(name)
        THEN [IdleProc EXCEPT !.op = "updateAccountInfo", !.name = name,
                              !.prev = sessProfile[u].displayName,
                              !.pc = "uai_update"]
        ELSE IdleProc]
  /\ UNCHANGED <<displayNames, auth, sessUser, sessProfile, profileLoading, subscribed, badgeVars, diskVars, lastOp, reviewVars>>

\* updateProfile settles and reserveDisplayName is called with the previous
\* display name (part_000 257-258)
UaiUpdateProfile(u) ==
  /\ proc[Api(u)].pc = "uai_update"
  /\ auth' = [auth EXCEPT ![u].displayName = proc[Api(u)].name]
  /\ ReserveCall(Api(u), "updateAccountInfo", proc[Api(u)].name,
                 proc[Api(u)].prev, FALSE)
  /\ UNCHANGED <<displayNames, users, sessUser, sessProfile, profileLoading, calls, badgeVars, diskVars, lastOp, reviewVars>>

(***************************************************************************)
(* createUserProfileIfMissing (userService.ts 77-103), run by the effect   *)
(***************************************************************************)
\* lines 95-102, then init() subscribes: reserve the effective name if any
CpmEnsureReservation(p, snapName) ==
  LET effectiveName == IF Truthy(auth[Uid(p)].displayName)
                       THEN auth[Uid(p)].displayName
                       ELSE snapName
  IN IF Truthy(effectiveName)
     THEN ReserveCall(p, "createUserProfileIfMissing", effectiveName, <<>>, FALSE)
     ELSE AfterReserve(p, proc[p])

\* mutant: the profile is written whether or not the document exists
CpmGet_AlwaysCreates(u, fails) ==
  /\ proc[Eff(u)].pc = "cpm_get"
  /\ IF fails THEN AfterReserve(Eff(u), proc[Eff(u)])
     ELSE /\ proc' = [proc EXCEPT ![Eff(u)].pc = "cpm_set",
                        ![Eff(u)].profName = auth[u].displayName]
          /\ UNCHANGED subscribed
  /\ UNCHANGED <<displayNames, users, auth, sessUser, sessProfile, profileLoading, calls, badgeVars, diskVars, lastOp, reviewVars>>

\* getDoc settles (lines 80-91); a failed read makes init() subscribe at once
CpmGet(u, fails) ==
  /\ proc[Eff(u)].pc = "cpm_get"
  /\ IF fails THEN AfterReserve(Eff(u), proc[Eff(u)])
     ELSE IF ~users[u].exists
          THEN /\ proc' = [proc EXCEPT ![Eff(u)].pc = "cpm_set",
                             ![Eff(u)].profName = auth[u].displayName]
               /\ UNCHANGED subscribed
          ELSE CpmEnsureReservation(Eff(u), users[u].displayName)
  /\ UNCHANGED <<displayNames, users, auth, sessUser, sessProfile, profileLoading, calls, badgeVars, diskVars, lastOp, reviewVars>>

\* setDoc(docRef, profile, {merge: true}) settles (line 92)
CpmSet(u, fails) ==
  /\ proc[Eff(u)].pc = "cpm_set"
  /\ IF fails
     THEN /\ AfterReserve(Eff(u), proc[Eff(u)])
          /\ UNCHANGED users
     ELSE /\ users' = [users EXCEPT ![u] =
                 ProfileDoc(proc[Eff(u)].profName, "diver", "none")]
          /\ CpmEnsureReservation(Eff(u), <<>>)
  /\ UNCHANGED <<displayNames, auth, sessUser, sessProfile, profileLoading, calls, badgeVars, diskVars, lastOp, reviewVars>>

\* what the listener hands to the callback (userService.ts 109-119)
ProfileView(doc) ==
  [doc EXCEPT !.status = IF doc.status = "" THEN "none" ELSE doc.status]

\* a snapshot of users/{uid} reaches a listener, which ignores it unless the
\* document exists (userService.ts 109-110), and the callback runs (part_000
\* 202-205)
ProfileSnapshot(u) ==
  /\ subscribed[u].current \/ subscribed[u].leaked
  /\ users[u].exists
  /\ profileLoading[u] \/ sessProfile[u] # ProfileView(users[u])
  /\ sessProfile' = [sessProfile EXCEPT ![u] = ProfileView(users[u])]
  /\ profileLoading' = [profileLoading EXCEPT ![u] = FALSE]
  /\ UNCHANGED <<displayNames, users, auth, sessUser, subscribed, proc, calls, badgeVars, diskVars, lastOp, reviewVars>>

(***************************************************************************)
(* Badge evaluator and custom badges (storageService.ts)                   *)
(***************************************************************************)
Digits == {"0", "1", "2", "3", "4", "5", "6", "7", "8", "9"}
DigitValue(c) ==
  CASE c = "0" -> 0 [] c = "1" -> 1 [] c = "2" -> 2 [] c = "3" -> 3 [] c = "4" -> 4
    [] c = "5" -> 5 [] c = "6" -> 6 [] c = "7" -> 7 [] c = "8" -> 8 [] c = "9" -> 9

\* s.split(':')[0]
RECURSIVE BeforeColon(_)
BeforeColon(s) ==
  IF s = <<>> \/ Head(s) = ":" THEN <<>>
  ELSE <<Head(s)>> \o BeforeColon(Tail(s))

RECURSIVE ParseDigits(_, _)
ParseDigits(s, acc) ==
  IF s # <<>> /\ Head(s) \in Digits
  THEN ParseDigits(Tail(s), acc * 10 + DigitValue(Head(s)))
  ELSE acc

\* parseInt of a string without sign or leading blanks: the value of the
\* leading decimal digits, NaN when there is none
ParseInt(s) ==
  IF s = <<>> \/ Head(s) \notin Digits
  THEN [nan |-> TRUE, value |-> 0]
  ELSE [nan |-> FALSE, value |-> ParseDigits(s, 0)]

\* number < n in JS: false for NaN
NumLess(number, n) == ~number.nan /\ number.value < n

\* the fields of a DiveLog (types.ts 45-70) that the badge conditions read;
\* a sighting is represented by its name, a photo by its reference
DiveLog(diveType, depth, temp, minutes, timeIn, endBar, photos, location, sightings) ==
  [diveType |-> diveType, maxDepthMeters |-> depth, waterTempCelsius |-> temp,
   durationMinutes |-> minutes, timeIn |-> timeIn, endPressureBar |-> endBar,
   photos |-> photos, location |-> location, marineLifeSightings |-> sightings]

LogNight ==
  DiveLog("Night Dive", 30, 15, 60, <<"0", "7", ":", "5", "9">>, 49, <<>>, "Jeju",
          <<"s1", "s2", "s3", "s4", "s5">>)
LogTropical ==
  DiveLog("Fun Dive", 29, 28, 59, <<"0", "8", ":", "0", "0">>, 50, <<"https://p1">>,
          "Cebu", <<"s6", "s7", "s8", "s9", "s10">>)
LogPlain ==
  DiveLog("Training", 12, 16, 40, <<>>, 40, <<>>, "Bali", <<"s1">>)
LogKinds == {LogNight, LogTropical, LogPlain}

\* the ids of AVAILABLE_BADGES in catalog order (storageService.ts 21-135)
AVAILABLE_BADGES ==
  <<"first-splash", "first-step", "adv-diver", "veteran-diver", "century-diver",
    "deep-diver", "night-owl", "marine-biologist", "shutterbug", "globe-trotter",
    "cold-blooded", "tropical-diver", "long-breath", "early-bird", "safety-first">>

\* the catalog conditions, in catalog order
\* mutant: first-splash needs no log
FirstSplash_Always(list) == Len(list) >= 0
FirstSplash(list) == Len(list) >= 1
\* mutant: first-step needs more than four logs
FirstStep_OffByOne(list) == Len(list) > 4
FirstStep(list) == Len(list) >= 4
AdvDiver(list) == Len(list) >= 20
VeteranDiver(list) == Len(list) >= 50
CenturyDiver(list) == Len(list) >= 100
DeepDiver(list) == \E i \in 1..Len(list) : list[i].maxDepthMeters >= 30
NightOwl(list) ==
  Cardinality({i \in 1..Len(list) : list[i].diveType = "Night Dive"}) >= 3
MarineBiologist(list) ==
  LET uniqueSpecies == UNION {{list[i].marineLifeSightings[j] :
                                 j \in 1..Len(list[i].marineLifeSightings)} :
                              i \in 1..Len(list)}
  IN Cardinality(uniqueSpecies) >= 10
Shutterbug(list) ==
  Cardinality({i \in 1..Len(list) : Len(list[i].photos) > 0}) >= 5
\* mutant: globe-trotter counts the logs, not their distinct locations
GlobeTrotter_CountsEntries(list) == Len([i \in 1..Len(list) |-> list[i].location]) >= 3
GlobeTrotter(list) == Cardinality({list[i].location : i \in 1..Len(list)}) >= 3
\* mutant: cold-blooded asks every dive to be cold
ColdBlooded_Every(list) == \A i \in 1..Len(list) : list[i].waterTempCelsius <= 15
ColdBlooded(list) == \E i \in 1..Len(list) : list[i].waterTempCelsius <= 15
TropicalDiver(list) ==
  Cardinality({i \in 1..Len(list) : list[i].waterTempCelsius >= 28}) >= 5
LongBreath(list) == \E i \in 1..Len(list) : list[i].durationMinutes >= 60
EarlyBird(list) ==
  \E i \in 1..Len(list) :
    IF list[i].timeIn = <<>> THEN FALSE
    ELSE NumLess(ParseInt(BeforeColon(list[i].timeIn)), 8)
SafetyFirst(list) ==
  Cardinality({i \in 1..Len(list) : list[i].endPressureBar >= 50}) >= 10

\* badge.condition(logs) of the catalog badge id
Condition(id, list) ==
  CASE id = "first-splash" -> FirstSplash(list)
    [] id = "first-step" -> FirstStep(list)
    [] id = "adv-diver" -> AdvDiver(list)
    [] id = "veteran-diver" -> VeteranDiver(list)
    [] id = "century-diver" -> CenturyDiver(list)
    [] id = "deep-diver" -> DeepDiver(list)
    [] id = "night-owl" -> NightOwl(list)
    [] id = "marine-biologist" -> MarineBiologist(list)
    [] id = "shutterbug" -> Shutterbug(list)
    [] id = "globe-trotter" -> GlobeTrotter(list)
    [] id = "cold-blooded" -> ColdBlooded(list)
    [] id = "tropical-diver" -> TropicalDiver(list)
    [] id = "long-breath" -> LongBreath(list)
    [] id = "early-bird" -> EarlyBird(list)
    [] id = "safety-first" -> SafetyFirst(list)

NoUser == ""
CustomIds == {"custom-1"}
\* the order in which getDocs returns the documents of a collection
CustomIdOrder == <<"custom-1">>
NoBadge == [exists |-> FALSE, icon |-> "", storagePath |-> <<>>, unlockedAt |-> ""]
BadgePath(userId, badgeId) == <<"badges", userId, badgeId>>

\* a returned badge: its id, unlockedAt, and whether it is a custom one
UnlockedBadge(id, unlockedAt, custom) ==
  [id |-> id, unlockedAt |-> unlockedAt, custom |-> custom]

\* getCustomBadges (storageService.ts 248-259) on the store `badges`
getCustomBadges(badges, userId) ==
  IF userId = NoUser THEN <<>>
  ELSE LET Stored(id) == badges[userId][id].exists
           ids == SelectSeq(CustomIdOrder, Stored)
       IN [i \in 1..Len(ids) |->
             UnlockedBadge(ids[i], badges[userId][ids[i]].unlockedAt, TRUE)]

\* mutant: custom badges are returned only for a user who has logged a dive
getUnlockedBadges_CustomNeedsLogs(list, badges, userId) ==
  LET Holds(id) == Condition(id, list)
      ids == SelectSeq(AVAILABLE_BADGES, Holds)
      standardBadges == [i \in 1..Len(ids) |-> UnlockedBadge(ids[i], "now", FALSE)]
      custom == IF list = <<>> THEN <<>> ELSE getCustomBadges(badges, userId)
  IN standardBadges \o custom

\* mutant: a user with custom badges gets no first-splash badge
getUnlockedBadges_CustomHidesFirst(list, badges, userId) ==
  LET custom == IF userId # NoUser THEN getCustomBadges(badges, userId) ELSE <<>>
      Holds(id) == Condition(id, list) /\ (id = "first-splash" => custom = <<>>)
      ids == SelectSeq(AVAILABLE_BADGES, Holds)
      standardBadges == [i \in 1..Len(ids) |-> UnlockedBadge(ids[i], "now", FALSE)]
  IN standardBadges \o custom

\* getUnlockedBadges (storageService.ts 302-313)
getUnlockedBadges(list, badges, userId) ==
  LET Holds(id) == Condition(id, list)
      ids == SelectSeq(AVAILABLE_BADGES, Holds)
      standardBadges == [i \in 1..Len(ids) |-> UnlockedBadge(ids[i], "now", FALSE)]
      custom == IF userId # NoUser THEN getCustomBadges(badges, userId) ELSE <<>>
  IN standardBadges \o custom

NotCalled == [called |-> FALSE, userId |-> NoUser, badges |-> <<>>]

BadgeInit ==
  /\ logs = <<>>
  /\ customBadges = [u \in Users |-> [id \in CustomIds |-> NoBadge]]
  /\ blobs = {}
  /\ unlocked = NotCalled

InsertAt(list, i, log) == SubSeq(list, 1, i) \o <<log>> \o SubSeq(list, i + 1, Len(list))
RemoveAt(list, i) == SubSeq(list, 1, i - 1) \o SubSeq(list, i + 1, Len(list))

\* a dive is saved and the list is fetched again (App.tsx 50-53): the new log
\* appears at its place in the diveNumber order.  Lists of MaxVaried logs or
\* more grow by a copy of their newest log at the head, up to `longest`.
AddLog(log, i, longest) ==
  /\ Len(logs) < longest
  /\ i \in 0..Len(logs)
  /\ Len(logs) >= MaxVaried => (i = 0 /\ log = logs[1])
  /\ logs' = InsertAt(logs, i, log)
  /\ unlocked' = NotCalled
  /\ lastOp' = NoOp
  /\ UNCHANGED <<customBadges, blobs, regVars, diskVars, reviewVars>>

\* a dive is deleted and the list is fetched again (App.tsx 58-62); from
\* lists longer than MaxVaried the newest log is the one deleted
RemoveLog(i) ==
  /\ i \in 1..Len(logs)
  /\ Len(logs) > MaxVaried => i = 1
  /\ logs' = RemoveAt(logs, i)
  /\ unlocked' = NotCalled
  /\ lastOp' = NoOp
  /\ UNCHANGED <<customBadges, blobs, regVars, diskVars, reviewVars>>

\* saveCustomBadge (storageService.ts 261-287); `fails` is an upload or a
\* write that throws, `generated` the id made from the clock
SaveCustomBadge(userId, badgeId, generated, icon, unlockedAt, fails) ==
  LET id == IF badgeId # "" THEN badgeId ELSE generated
      isData == icon = "data:image/png"
      storagePath == IF isData THEN BadgePath(userId, id) ELSE <<>>
  IN /\ unlocked' = NotCalled
     /\ IF userId = NoUser \/ (fails /\ ~isData)
        THEN UNCHANGED <<customBadges, blobs>>
        ELSE IF fails
        THEN \* the upload failed, or it succeeded and setDoc failed
             /\ blobs' \in {blobs, blobs \cup {storagePath}}
             /\ UNCHANGED customBadges
        ELSE /\ blobs' = IF isData THEN blobs \cup {storagePath} ELSE blobs
             /\ customBadges' = [customBadges EXCEPT ![userId][id] =
                  [exists |-> TRUE,
                   icon |-> IF isData THEN "url-of-upload" ELSE icon,
                   storagePath |-> storagePath,
                   unlockedAt |-> IF unlockedAt # "" THEN unlockedAt ELSE "now"]]
     /\ lastOp' = IF userId = NoUser
                  THEN OpResult("saveCustomBadge", NotAuthenticated, FALSE, FALSE, 0, <<>>)
                  ELSE NoOp
     /\ UNCHANGED <<logs, regVars, diskVars, reviewVars>>

\* deleteCustomBadge (storageService.ts 289-300) with deleteStoragePath
\* (148-155): `fails` is a deleteObject that throws, which is swallowed
DeleteCustomBadge(userId, badgeId, fails) ==
  /\ unlocked' = NotCalled
  /\ IF userId = NoUser THEN UNCHANGED <<customBadges, blobs>>
     ELSE /\ blobs' = IF customBadges[userId][badgeId].exists
                         /\ customBadges[userId][badgeId].storagePath # <<>>
                         /\ ~fails
                      THEN blobs \ {customBadges[userId][badgeId].storagePath}
                      ELSE blobs
          /\ customBadges' = [customBadges EXCEPT ![userId][badgeId] = NoBadge]
  /\ lastOp' = IF userId = NoUser
               THEN OpResult("deleteCustomBadge", NotAuthenticated, FALSE, FALSE, 0, <<>>)
               ELSE NoOp
  /\ UNCHANGED <<logs, regVars, diskVars, reviewVars>>

\* a call of getUnlockedBadges(logs, userId) on the fetched list (App.tsx
\* 38-40); `fails` is a getDocs that throws, so that nothing is returned
GetUnlockedBadges(userId, fails) ==
  /\ unlocked' = IF fails /\ userId # NoUser THEN NotCalled
                 ELSE [called |-> TRUE, userId |-> userId,
                       badges |-> getUnlockedBadges(logs, customBadges, userId)]
  /\ lastOp' = NoOp
  /\ UNCHANGED <<logs, customBadges, blobs, regVars, diskVars, reviewVars>>

\* the custom-badge store of signed-in users next to short dive-log lists
NextBadge ==
  \/ \E log \in LogKinds, i \in 0..MaxVaried : AddLog(log, i, MaxVaried)
  \/ \E i \in 1..MaxVaried : RemoveLog(i)
  \/ \E userId \in Users, badgeId \in CustomIds \cup {""},
        generated \in CustomIds, icon \in {"data:image/png", "https://icon"},
        unlockedAt \in {"", "t0"}, fails \in BOOLEAN :
       SaveCustomBadge(userId, badgeId, generated, icon, unlockedAt, fails)
  \/ \E userId \in Users, badgeId \in CustomIds, fails \in BOOLEAN :
       DeleteCustomBadge(userId, badgeId, fails)
  \/ \E userId \in Users \cup {NoUser}, fails \in BOOLEAN :
       GetUnlockedBadges(userId, fails)

\* the catalog over dive-log lists of up to MaxLogs logs
NextCatalog ==
  \/ \E log \in LogKinds, i \in 0..MaxVaried : AddLog(log, i, MaxLogs)
  \/ \E i \in 1..MaxVaried : RemoveLog(i)
  \/ \E userId \in Users \cup {NoUser}, fails \in BOOLEAN :
       GetUnlockedBadges(userId, fails)

(***************************************************************************)
(* Dive-log documents and their photo blobs (storageService.ts 136-246)    *)
(***************************************************************************)
LogIds == {"log-1", "log-2", "log-3"}
\* the dive numbers a log can carry (LogEntryForm.tsx 79-82: any number)
DiveNumbers == -1..MaxDiveNumber
\* the file names made from Date.now() and randomSuffix(), in the order made
FileNames == <<"f1", "f2", "f3", "f4", "f5", "f6">>
NoPath == <<>>
\* `logs/${userId}/${logId}/${Date.now()}-${i}-${randomSuffix()}.png`
LogPath(userId, logId, n) == <<"logs", userId, logId, FileNames[n]>>
\* an inline image (a string that starts with 'data:')
DataPhoto == [kind |-> "data", path |-> NoPath]
\* the download URL of the blob at `path`
UrlPhoto(path) == [kind |-> "url", path |-> path]
NoLog == [exists |-> FALSE, diveNumber |-> 0, photos |-> <<>>, photoStoragePaths |-> <<>>]
LogDoc(diveNumber, photos, photoStoragePaths) ==
  [exists |-> TRUE, diveNumber |-> diveNumber, photos |-> photos,
   photoStoragePaths |-> photoStoragePaths]


\* deleteStoragePath (storageService.ts 148-155) on the set of blobs: an
\* empty path is skipped, a deleteObject that throws is swallowed
deleteStoragePath(store, path, delFails) ==
  IF path = NoPath \/ delFails THEN store ELSE store \ {path}

\* mutant: no blob is deleted
DeleteStoragePaths_Nothing(store, paths, from, delFails) == store

\* existingPaths.filter(Boolean).map(deleteStoragePath) from index `from` on
DeleteStoragePaths(store, paths, from, delFails) ==
  IF delFails THEN store
  ELSE store \ {paths[i] : i \in from..Len(paths)}

\* some deleteObject of that call throws and is logged
DeleteWarns(paths, from, delFails) ==
  delFails /\ \E i \in from..Len(paths) : paths[i] # NoPath

\* existingPaths[i] || ''
PathAt(paths, i) == IF i <= Len(paths) THEN paths[i] ELSE NoPath

\* mutant: the path of an uploaded image is not recorded
ProcessPhoto_PathNotRecorded(acc, call, i) ==
  LET photo == call.photos[i]
      existing == PathAt(call.existingPaths, i)
      path == LogPath(call.userId, call.logId, acc.n + 1)
  IN IF photo.kind = "data"
     THEN [acc EXCEPT !.n = acc.n + 1, !.k = acc.k + 1,
                      !.failed = (call.failUpload = acc.k + 1),
                      !.blobs = deleteStoragePath(acc.blobs, existing, call.delFails)
                                  \cup {path},
                      !.photos = Append(acc.photos, UrlPhoto(path)),
                      !.paths = Append(acc.paths, NoPath)]
     ELSE [acc EXCEPT !.photos = Append(acc.photos, photo),
                      !.paths = Append(acc.paths, existing)]

\* one turn of the loop of processLogPhotos (storageService.ts 170-187);
\* acc.k counts the uploads of this call, acc.n the file names made so far
ProcessPhoto(acc, call, i) ==
  LET photo == call.photos[i]
      existing == PathAt(call.existingPaths, i)
      cleaned == deleteStoragePath(acc.blobs, existing, call.delFails)
      path == LogPath(call.userId, call.logId, acc.n + 1)
  IN IF photo.kind = "data"
     THEN IF call.failUpload = acc.k + 1
          THEN \* uploadString or getDownloadURL throws
               [acc EXCEPT !.failed = TRUE, !.n = acc.n + 1, !.k = acc.k + 1,
                           !.warned = acc.warned \/ (call.delFails /\ existing # NoPath),
                           !.blobs = IF call.blobKept THEN cleaned \cup {path}
                                     ELSE cleaned]
          ELSE [acc EXCEPT !.n = acc.n + 1, !.k = acc.k + 1,
                           !.warned = acc.warned \/ (call.delFails /\ existing # NoPath),
                           !.blobs = cleaned \cup {path},
                           !.photos = Append(acc.photos, UrlPhoto(path)),
                           !.paths = Append(acc.paths, path)]
     ELSE [acc EXCEPT !.photos = Append(acc.photos, photo),
                      !.paths = Append(acc.paths, existing)]

RECURSIVE ProcessFrom(_, _, _)
ProcessFrom(acc, call, i) ==
  IF i > Len(call.photos) \/ acc.failed THEN acc
  ELSE ProcessFrom(ProcessPhoto(acc, call, i), call, i + 1)

\* mutant: an empty photo list returns without deleting the stored paths
processLogPhotos_EmptyKeepsBlobs(store, made, call) ==
  LET start == [photos |-> <<>>, paths |-> <<>>, blobs |-> store, n |-> made,
                k |-> 0, failed |-> FALSE, warned |-> FALSE]
      done == ProcessFrom(start, call, 1)
  IN IF call.photos = <<>> THEN start
     ELSE IF done.failed THEN done
     ELSE [done EXCEPT !.blobs =
             DeleteStoragePaths(done.blobs, call.existingPaths,
                                Len(done.paths) + 1, call.delFails),
                       !.warned = done.warned \/
             DeleteWarns(call.existingPaths, Len(done.paths) + 1, call.delFails)]

\* processLogPhotos (storageService.ts 157-195): the final photos and paths,
\* the blobs and the number of file names afterwards, and whether it threw
processLogPhotos(store, made, call) ==
  LET start == [photos |-> <<>>, paths |-> <<>>, blobs |-> store, n |-> made,
                k |-> 0, failed |-> FALSE, warned |-> FALSE]
      done == ProcessFrom(start, call, 1)
  IN IF call.photos = <<>>
     THEN [start EXCEPT !.blobs =
             DeleteStoragePaths(store, call.existingPaths, 1, call.delFails),
                        !.warned = DeleteWarns(call.existingPaths, 1, call.delFails)]
     ELSE IF done.failed THEN done
     ELSE [done EXCEPT !.blobs =
             DeleteStoragePaths(done.blobs, call.existingPaths,
                                Len(done.paths) + 1, call.delFails),
                       !.warned = done.warned \/
             DeleteWarns(call.existingPaths, Len(done.paths) + 1, call.delFails)]

\* the log actions leave everything but the logs and their blobs alone
LogFrame == UNCHANGED <<regVars, logs, customBadges, unlocked, photoPath, reviewVars>>

DataCount(photos) == Cardinality({i \in 1..Len(photos) : photos[i].kind = "data"})

\* the await of a call that throws: "read" the getDoc, "write" the setDoc or
\* deleteDoc, "upload" the upload number `upload` of the call, whose blob
\* was stored before it threw when blobKept
Fault(at, upload, blobKept) == [at |-> at, upload |-> upload, blobKept |-> blobKept]
NoFault == Fault("none", 0, FALSE)
DocFaults == {NoFault, Fault("read", 0, FALSE), Fault("write", 0, FALSE)}
UploadFaults(photos) ==
  {Fault("upload", k, kept) : k \in 1..DataCount(photos), kept \in BOOLEAN}

\* mutant: the document is written although an await threw
SaveLog_WritesAfterFailure(userId, id, generated, diveNumber, photos, fault, delFails) ==
  LET logId == IF id # "" THEN id ELSE generated
      existingData == logDocs[userId][logId]
      call == [userId |-> userId, logId |-> logId, photos |-> photos,
               existingPaths |-> existingData.photoStoragePaths,
               failUpload |-> fault.upload, blobKept |-> fault.blobKept,
               delFails |-> delFails]
      processedPhotos == processLogPhotos(blobs, uploads, call)
  IN /\ LogFrame
     /\ IF userId = NoUser
        THEN /\ lastOp' = OpResult("saveLog", NotAuthenticated, FALSE, FALSE, DataCount(photos), <<>>)
             /\ UNCHANGED <<logDocs, blobs, uploads>>
        ELSE /\ id = "" => ~logDocs[userId][generated].exists
             /\ IF fault.at = "read"
                THEN /\ lastOp' = OpResult("saveLog", "error", TRUE, FALSE,
                                          DataCount(photos), <<>>)
                     /\ UNCHANGED <<logDocs, blobs, uploads>>
                ELSE /\ uploads + DataCount(photos) <= MaxUploads
                     /\ blobs' = processedPhotos.blobs
                     /\ uploads' = processedPhotos.n
                     /\ IF processedPhotos.failed \/ fault.at = "write"
                        THEN /\ lastOp' = OpResult("saveLog", "error", TRUE,
                                  processedPhotos.warned, DataCount(photos), <<>>)
                             /\ logDocs' = [logDocs EXCEPT ![userId][logId] =
                                  LogDoc(diveNumber, processedPhotos.photos,
                                         processedPhotos.paths)]
                        ELSE /\ lastOp' = OpResult("saveLog", "ok", TRUE,
                                  processedPhotos.warned, DataCount(photos), <<>>)
                             /\ logDocs' = [logDocs EXCEPT ![userId][logId] =
                                  LogDoc(diveNumber, processedPhotos.photos,
                                         processedPhotos.paths)]

\* saveLog (storageService.ts 212-233); a generated id is one no log has
SaveLog(userId, id, generated, diveNumber, photos, fault, delFails) ==
  LET logId == IF id # "" THEN id ELSE generated
      existingData == logDocs[userId][logId]
      call == [userId |-> userId, logId |-> logId, photos |-> photos,
               existingPaths |-> existingData.photoStoragePaths,
               failUpload |-> fault.upload, blobKept |-> fault.blobKept,
               delFails |-> delFails]
      processedPhotos == processLogPhotos(blobs, uploads, call)
  IN /\ LogFrame
     /\ IF userId = NoUser
        THEN /\ lastOp' = OpResult("saveLog", NotAuthenticated, FALSE, FALSE, DataCount(photos), <<>>)
             /\ UNCHANGED <<logDocs, blobs, uploads>>
        ELSE /\ id = "" => ~logDocs[userId][generated].exists
             /\ IF fault.at = "read"
                THEN /\ lastOp' = OpResult("saveLog", "error", TRUE, FALSE,
                                          DataCount(photos), <<>>)
                     /\ UNCHANGED <<logDocs, blobs, uploads>>
                ELSE /\ uploads + DataCount(photos) <= MaxUploads
                     /\ blobs' = processedPhotos.blobs
                     /\ uploads' = processedPhotos.n
                     /\ IF processedPhotos.failed \/ fault.at = "write"
                        THEN /\ lastOp' = OpResult("saveLog", "error", TRUE,
                                  processedPhotos.warned, DataCount(photos), <<>>)
                             /\ UNCHANGED logDocs
                        ELSE /\ lastOp' = OpResult("saveLog", "ok", TRUE,
                                  processedPhotos.warned, DataCount(photos), <<>>)
                             /\ logDocs' = [logDocs EXCEPT ![userId][logId] =
                                  LogDoc(diveNumber, processedPhotos.photos,
                                         processedPhotos.paths)]

\* deleteLog (storageService.ts 235-246)
DeleteLog(userId, id, fault, delFails) ==
  LET exists == logDocs[userId][id].exists
      paths == logDocs[userId][id].photoStoragePaths
      warned == exists /\ DeleteWarns(paths, 1, delFails)
  IN /\ UNCHANGED uploads
     /\ LogFrame
     /\ IF userId = NoUser
        THEN /\ lastOp' = OpResult("deleteLog", NotAuthenticated, FALSE, FALSE, 0, <<>>)
             /\ UNCHANGED <<logDocs, blobs>>
        ELSE IF fault.at = "read"
        THEN /\ lastOp' = OpResult("deleteLog", "error", TRUE, FALSE, 0, <<>>)
             /\ UNCHANGED <<logDocs, blobs>>
        ELSE /\ blobs' = IF exists THEN DeleteStoragePaths(blobs, paths, 1, delFails)
                         ELSE blobs
             /\ IF fault.at = "write"
                THEN /\ lastOp' = OpResult("deleteLog", "error", TRUE, warned, 0, <<>>)
                     /\ UNCHANGED logDocs
                ELSE /\ lastOp' = OpResult("deleteLog", "ok", TRUE, warned, 0, <<>>)
                     /\ logDocs' = [logDocs EXCEPT ![userId][id] = NoLog]

\* the documents of a collection in the order of their names
LogIdOrder == <<"log-1", "log-2", "log-3">>
IdRank(id) == CHOOSE i \in 1..Len(LogIdOrder) : LogIdOrder[i] = id

\* mutant: the query orders by diveNumber ascending
ComesBefore_Ascending(docs, a, b) ==
  \/ docs[a].diveNumber < docs[b].diveNumber
  \/ docs[a].diveNumber = docs[b].diveNumber /\ IdRank(a) < IdRank(b)

\* orderBy('diveNumber', 'desc') (storageService.ts 199): the greater number
\* first, documents with equal numbers by name in the same direction
ComesBefore(docs, a, b) ==
  \/ docs[a].diveNumber > docs[b].diveNumber
  \/ docs[a].diveNumber = docs[b].diveNumber /\ IdRank(a) > IdRank(b)

\* the documents `ids` of a user's logs as the query returns them
RECURSIVE QueryLogs(_, _)
QueryLogs(docs, ids) ==
  IF ids = {} THEN <<>>
  ELSE LET first == CHOOSE a \in ids : \A b \in ids \ {a} : ComesBefore(docs, a, b)
       IN <<[id |-> first, diveNumber |-> docs[first].diveNumber]>>
            \o QueryLogs(docs, ids \ {first})

\* mutant: the query is made whether or not there is a user id
GetLogs_AlwaysQueries(userId, fails) ==
  /\ lastOp' = IF fails THEN OpResult("getLogs", "error", TRUE, FALSE, 0, <<>>)
               ELSE OpResult("getLogs", "ok", TRUE, FALSE, 0, <<>>)
  /\ UNCHANGED <<logDocs, blobs, uploads>>
  /\ LogFrame

\* getLogs (storageService.ts 197-210): the id and diveNumber of the logs it
\* returns, in their order
GetLogs(userId, fails) ==
  /\ lastOp' =
       IF userId = NoUser THEN OpResult("getLogs", "ok", FALSE, FALSE, 0, <<>>)
       ELSE IF fails THEN OpResult("getLogs", "error", TRUE, FALSE, 0, <<>>)
       ELSE OpResult("getLogs", "ok", TRUE, FALSE, 0,
                     QueryLogs(logDocs[userId],
                               {id \in LogIds : logDocs[userId][id].exists}))
  /\ UNCHANGED <<logDocs, blobs, uploads>>
  /\ LogFrame

\* lastDiveNumber (App.tsx 267) and the diveNumber a new form starts with
\* (LogEntryForm.tsx 19) for the fetched list `list`
lastDiveNumber(list) == IF Len(list) > 0 THEN list[1].diveNumber ELSE 0
DefaultDiveNumber(list) == lastDiveNumber(list) + 1

\* the photo lists a client can hand to saveLog for a log it fetched with
\* the photos `stored`: some of these in their order, and inline images at
\* any place, at most MaxPhotos in all
PhotoLists(stored) ==
  LET Place(photo) == CHOOSE i \in 1..Len(stored) : stored[i] = photo
      Kept(list) == {i \in 1..Len(list) : list[i].kind # "data"}
  IN {list \in UNION {[1..n -> {DataPhoto} \cup {stored[i] : i \in 1..Len(stored)}] :
                        n \in 0..MaxPhotos} :
        \A i, j \in Kept(list) : i < j => Place(list[i]) < Place(list[j])}

\* the photo lists the log form hands to saveLog for a log with the photos
\* `stored` (LogEntryForm.tsx 23, 68, 116): these, or one new inline image;
\* and the empty list
FormPhotoLists(stored) == {<<>>, <<DataPhoto>>, stored}

\* `profile/${uid}/avatar-${Date.now()}.${extension}` (userService.ts 202)
AvatarPath(uid, n) == <<"profile", uid, FileNames[n]>>
\* the error of updateProfilePhoto called without a uid (userService.ts 196)
LoginRequired == "login required"
\* the awaits of updateProfilePhoto that can throw
PhotoFaults == DocFaults \cup {Fault("upload", 1, kept) : kept \in BOOLEAN}

\* mutant: a deleteObject that throws is not caught
UpdateProfilePhoto_DeleteThrows(uid, isDataUrl, fault, delFails) ==
  LET path == AvatarPath(uid, uploads + 1)
      previousPath == IF fault.at # "read" /\ users[uid].exists
                      THEN photoPath[uid] ELSE NoPath
      stale == previousPath # NoPath /\ previousPath # path
  IN /\ uid # NoUser /\ isDataUrl /\ fault = NoFault /\ uploads < MaxUploads
     /\ uploads' = uploads + 1
     /\ blobs' = deleteStoragePath(blobs \cup {path},
                                   IF stale THEN previousPath ELSE NoPath, delFails)
     /\ photoPath' = [photoPath EXCEPT ![uid] = path]
     /\ users' = [users EXCEPT ![uid].exists = TRUE]
     /\ lastOp' = OpResult("updateProfilePhoto",
                           IF delFails /\ stale THEN "error" ELSE "ok",
                           TRUE, FALSE, 1, <<>>)
     /\ UNCHANGED <<displayNames, auth, sessUser, sessProfile, profileLoading, subscribed, proc,
                    calls, logs, customBadges, unlocked, logDocs, reviewVars>>

\* updateProfilePhoto (userService.ts 192-235): the upload, the read of the
\* previous path (a failure is swallowed and nothing is deleted then), the
\* merge write of photoPath, which creates the document when there is none,
\* and the deleteObject of the previous blob, whose failure is swallowed
UpdateProfilePhoto(uid, isDataUrl, fault, delFails) ==
  LET path == AvatarPath(uid, uploads + 1)
      previousPath == IF fault.at # "read" /\ users[uid].exists
                      THEN photoPath[uid] ELSE NoPath
      stale == previousPath # NoPath /\ previousPath # path
      Threw(error, io) ==
        /\ lastOp' = OpResult("updateProfilePhoto", error, io, FALSE,
                              IF isDataUrl THEN 1 ELSE 0, <<>>)
        /\ UNCHANGED <<photoPath, users>>
  IN /\ UNCHANGED <<displayNames, auth, sessUser, sessProfile, profileLoading, subscribed, proc,
                    calls, logs, customBadges, unlocked, logDocs, reviewVars>>
     /\ IF uid = NoUser
        THEN Threw(LoginRequired, FALSE) /\ UNCHANGED <<blobs, uploads>>
        ELSE IF ~isDataUrl
        THEN Threw("invalid_image_data", FALSE) /\ UNCHANGED <<blobs, uploads>>
        ELSE /\ uploads < MaxUploads
             /\ uploads' = uploads + 1
             /\ IF fault.at = "upload"
                THEN /\ Threw("error", TRUE)
                     /\ blobs' = IF fault.blobKept THEN blobs \cup {path} ELSE blobs
                ELSE IF fault.at = "write"
                THEN /\ Threw("error", TRUE)
                     /\ blobs' = blobs \cup {path}
                ELSE /\ blobs' = deleteStoragePath(blobs \cup {path},
                                   IF stale THEN previousPath ELSE NoPath, delFails)
                     /\ photoPath' = [photoPath EXCEPT ![uid] = path]
                     /\ users' = [users EXCEPT ![uid].exists = TRUE]
                     /\ lastOp' = OpResult("updateProfilePhoto", "ok", TRUE,
                                           delFails /\ stale, 1, <<>>)

\* the fields of instructorApplication other than status (types.ts 15-25)
NoApplication == [certificatePath |-> NoPath, reviewedBy |-> ""]

\* the users whose profile documents the profile specification follows
ProfileUsers == {"u1"}
IdleReview == [pc |-> "idle", target |-> "", certificatePath |-> NoPath]
\* the reviewer: an account whose role was set to 'admin' outside the program
Reviewer == "admin"

\* `certifications/${uid}/${Date.now()}-${file.name}` (userService.ts 127)
CertificatePath(uid, n) == <<"certifications", uid, FileNames[n]>>

\* role (part_000 262) and canApply (LogDetailModal.tsx 347-349) for the
\* profile the page rendered with; NoProfile is a null profile
canApply(profile) ==
  LET role == IF profile.role = "" THEN "diver" ELSE profile.role
  IN role = "diver" /\ profile.status \in {"none", "rejected", ""}

\* the awaits of submitInstructorApplication that can throw
SubmitFaults == {NoFault, Fault("write", 0, FALSE)}
                  \cup {Fault("upload", 1, kept) : kept \in BOOLEAN}

ReviewFrame ==
  UNCHANGED <<displayNames, auth, sessUser, sessProfile, profileLoading, subscribed, proc, calls,
              logs, customBadges, unlocked, diskVars, lastOp>>

\* the application form is submitted (LogDetailModal.tsx 351-371):
\* applyForInstructor (part_000 243-246) calls submitInstructorApplication
\* (userService.ts 122-147), which uploads the certificate and merges the
\* pending application into users/{uid}, whatever the stored status is
ApplyForInstructor(u, fault) ==
  LET path == CertificatePath(u, uploads + 1)
  IN /\ sessUser[u]
     /\ canApply(sessProfile[u])
     /\ uploads < MaxUploads
     /\ uploads' = uploads + 1
     /\ blobs' = IF fault.at = "upload" /\ ~fault.blobKept THEN blobs
                 ELSE blobs \cup {path}
     /\ IF fault.at \in {"upload", "write"}
        THEN UNCHANGED <<users, applications>>
        ELSE /\ users' = [users EXCEPT ![u].exists = TRUE, ![u].status = "pending"]
             /\ applications' = [applications EXCEPT ![u].certificatePath = path]
     /\ UNCHANGED <<displayNames, auth, sessUser, sessProfile, profileLoading, subscribed, proc,
                    calls, logs, customBadges, unlocked, logDocs, photoPath,
                    lastOp, adminList, review>>

\* fetchPendingInstructorApplications (userService.ts 149-156)
fetchPendingInstructorApplications(docs) ==
  {u \in Users : docs[u].exists /\ docs[u].status = "pending"}

\* loadApplications (AdminDashboard.tsx 14-26), on mount and after an approval
LoadApplications ==
  /\ review.pc \in {"idle", "load"}
  /\ adminList' = fetchPendingInstructorApplications(users)
  /\ review' = IdleReview
  /\ UNCHANGED <<users, applications, blobs>>
  /\ ReviewFrame

\* approveInstructorApplication up to the end of its getDoc (userService.ts
\* 165-169): without a document it returns, and the caller reloads the list
approveInstructorApplication(targetUid) ==
  /\ review.pc = "idle"
  /\ review' = IF ~users[targetUid].exists THEN [IdleReview EXCEPT !.pc = "load"]
               ELSE [pc |-> "approve_update", target |-> targetUid,
                     certificatePath |-> applications[targetUid].certificatePath]
  /\ UNCHANGED <<users, applications, adminList, blobs>>
  /\ ReviewFrame

\* handleApprove (AdminDashboard.tsx 28-37) for a listed application
ApproveGet(targetUid) ==
  /\ targetUid \in adminList
  /\ approveInstructorApplication(targetUid)

\* mutant: the approval does not change the role
ApproveUpdate_KeepsRole(fails) ==
  /\ review.pc = "approve_update"
  /\ IF fails
     THEN /\ review' = IdleReview
          /\ UNCHANGED <<users, applications>>
     ELSE /\ users' = [users EXCEPT ![review.target].status = "approved"]
          /\ applications' = [applications EXCEPT ![review.target] =
               [certificatePath |-> review.certificatePath, reviewedBy |-> Reviewer]]
          /\ review' = [IdleReview EXCEPT !.pc = "load"]
  /\ UNCHANGED <<adminList, blobs>>
  /\ ReviewFrame

\* the updateDoc of approveInstructorApplication settles (userService.ts
\* 171-189): role and application are written whatever the status is now; on
\* a failure handleApprove does not reload the list
ApproveUpdate(fails) ==
  /\ review.pc = "approve_update"
  /\ IF fails
     THEN /\ review' = IdleReview
          /\ UNCHANGED <<users, applications>>
     ELSE /\ users' = [users EXCEPT ![review.target].role = "instructor",
                                    ![review.target].status = "approved"]
          /\ applications' = [applications EXCEPT ![review.target] =
               [certificatePath |-> review.certificatePath, reviewedBy |-> Reviewer]]
          /\ review' = [IdleReview EXCEPT !.pc = "load"]
  /\ UNCHANGED <<adminList, blobs>>
  /\ ReviewFrame

StoreInit ==
  /\ logDocs = [u \in Users |-> [id \in LogIds |-> NoLog]]
  /\ uploads = 0
  /\ photoPath = [u \in Users |-> NoPath]
  /\ lastOp = NoOp

NextLogs ==
  \/ \E userId \in {"u1"}, id \in {"log-1", ""}, generated \in {"log-1"},
        delFails \in BOOLEAN :
       \E photos \in PhotoLists(logDocs[userId][generated].photos) :
         \E fault \in DocFaults \cup UploadFaults(photos) :
           SaveLog(userId, id, generated, 1, photos, fault, delFails)
  \/ \E photos \in PhotoLists(<<>>) :
       SaveLog(NoUser, "log-1", "log-1", 1, photos, NoFault, FALSE)
  \/ \E userId \in {"u1", NoUser}, id \in {"log-1"}, fault \in DocFaults,
        delFails \in BOOLEAN :
       DeleteLog(userId, id, fault, delFails)
  \/ \E userId \in {"u1", NoUser}, fails \in BOOLEAN :
       GetLogs(userId, fails)

(***************************************************************************)
(* Specification of the registry                                           *)
(***************************************************************************)
RegInit ==
  /\ displayNames = [k \in Keys |-> NoDoc]
  /\ users = [u \in Users |-> NoProfile]
  /\ auth = [u \in Users |-> NoAccount]
  /\ sessUser = [u \in Users |-> FALSE]
  /\ sessProfile = [u \in Users |-> NoProfile]
  /\ profileLoading = [u \in Users |-> FALSE]
  /\ subscribed = [u \in Users |-> [current |-> FALSE, leaked |-> FALSE]]
  /\ proc = [p \in Procs |-> IdleProc]
  /\ calls = 0

ReviewInit ==
  /\ applications = [u \in Users |-> NoApplication]
  /\ adminList = {}
  /\ review = IdleReview

Init == RegInit /\ BadgeInit /\ StoreInit /\ ReviewInit

Next ==
  \/ \E u \in Users, name \in AccountNames : RegisterWithEmail(u, name)
  \/ \E u \in Users, fails \in BOOLEAN : RegUpdateProfile(u, fails)
  \/ \E u \in Users : RegDelete(u)
  \/ \E u \in Users : SignInWithEmail(u)
  \/ \E u \in Users, name \in AccountNames : SignInWithGoogle(u, name)
  \/ \E u \in Users : Logout(u)
  \/ \E u \in Users, hasName \in BOOLEAN, name \in AccountNames,
        hasBio \in BOOLEAN :
       /\ hasName \/ name = <<>>
       /\ UpdateAccountInfo(u, hasName, name, hasBio)
  \/ \E u \in Users : UaiUpdateProfile(u)
  \/ \E p \in Procs : TxGet(p)
  \/ \E p \in Procs : TxCommit(p)
  \/ \E u \in Users, fails \in BOOLEAN : CpmGet(u, fails)
  \/ \E u \in Users, fails \in BOOLEAN : CpmSet(u, fails)
  \/ \E u \in Users : ProfileSnapshot(u)

Spec == Init /\ [][Next]_vars

(***************************************************************************)
(* The name-check HTTP handler (api/check-nickname.ts)                     *)
(***************************************************************************)
Methods == {"GET", "POST", "HEAD"}

\* req.query.name: absent, one string, or the array of a repeated parameter
NoParam == [kind |-> "undefined", values |-> <<>>]
StringParam(value) == [kind |-> "string", values |-> <<value>>]
ArrayParam(values) == [kind |-> "array", values |-> values]
NameParams ==
  {NoParam, ArrayParam(<<>>), ArrayParam(<<NameDiver, NameBlank>>),
   ArrayParam(<<NameBlank, NameDiver>>)}
  \cup {StringParam(value) : value \in DisplayNames \cup {<<>>, <<"D", " ">>}}

\* where the lookup throws: nowhere, in initAdmin or getFirestore, or in get()
LookupFaults == {"none", "init", "get"}

\* (Array.isArray(nameParam) ? nameParam[0] : nameParam)?.trim() ?? ''
QueryName(nameParam) ==
  IF nameParam.values = <<>> THEN <<>> ELSE Trim(nameParam.values[1])

\* users.where('displayName', '==', displayName).limit(1).get() is empty
Available(displayName) ==
  ~\E u \in Users : users[u].exists /\ users[u].displayName = displayName

Response(status, body) == [status |-> status, body |-> body]

\* mutant: the statement after the 405 response is not a return
handler_FallsThrough(method, nameParam, fault) ==
  LET displayName == QueryName(nameParam)
      first == IF method # "GET"
               THEN <<Response(405, "method_not_allowed")>> ELSE <<>>
      rest == IF displayName = <<>> THEN <<Response(400, "name_required")>>
              ELSE IF fault # "none" THEN <<Response(500, "internal_error")>>
              ELSE <<Response(200, Available(displayName))>>
  IN /\ lastOp' = OpResult("checkNickname", "returned",
                           displayName # <<>> /\ fault # "init", FALSE, 0,
                           first \o rest)
     /\ UNCHANGED <<regVars, badgeVars, diskVars, reviewVars>>

\* handler (api/check-nickname.ts 29-59): the responses it sends, in
\* lastOp.result, and whether the query was issued, in lastOp.io
handler(method, nameParam, fault) ==
  LET displayName == QueryName(nameParam)
  IN /\ lastOp' =
          IF method # "GET"
          THEN OpResult("checkNickname", "returned", FALSE, FALSE, 0,
                        <<Response(405, "method_not_allowed")>>)
          ELSE IF displayName = <<>>
          THEN OpResult("checkNickname", "returned", FALSE, FALSE, 0,
                        <<Response(400, "name_required")>>)
          ELSE IF fault # "none"
          THEN OpResult("checkNickname", "returned", fault # "init", FALSE, 0,
                        <<Response(500, "internal_error")>>)
          ELSE OpResult("checkNickname", "returned", TRUE, FALSE, 0,
                        <<Response(200, Available(displayName))>>)
     /\ UNCHANGED <<regVars, badgeVars, diskVars, reviewVars>>

(***************************************************************************)
(* Specification of reserveDisplayName alone: concurrent direct calls      *)
(***************************************************************************)
\* arguments of the direct calls: the options object is absent, carries
\* previousDisplayName, or carries validateOnly
ReserveInputs ==
  ({NameOceanPadded, NameOceanLower, NameDiver} \X {<<>>, NameOceanPadded, NameDiver}
     \X {FALSE})
  \cup ({NameOceanPadded, NameOceanLower, NameDiver} \X {<<>>} \X {TRUE})
  \cup ({<<>>, NameBlank} \X {<<>>, NameDiver} \X {FALSE})

NextReserve ==
  \/ \E u \in Users, in \in ReserveInputs : ReserveDisplayName(u, in[1], in[2], in[3])
  \/ \E u \in Users : TxGet(Api(u))
  \/ \E u \in Users : TxCommit(Api(u))

SpecReserve == Init /\ [][NextReserve]_vars

(***************************************************************************)
(* Specification of the badge evaluator                                    *)
(***************************************************************************)
SpecBadge == Init /\ [][NextBadge]_vars
SpecCatalog == Init /\ [][NextCatalog]_vars

\* the catalog over the short dive-log lists: every list of up to MaxVaried
\* logs, and these with a repeated newest log
NextDistinct ==
  \/ \E log \in LogKinds, i \in 0..MaxVaried : AddLog(log, i, MaxVaried + 2)
  \/ \E i \in 1..MaxVaried : RemoveLog(i)
  \/ \E userId \in {"u1", NoUser} : GetUnlockedBadges(userId, FALSE)

SpecDistinct == Init /\ [][NextDistinct]_vars

(***************************************************************************)
(* Specification of the dive-log storage                                   *)
(***************************************************************************)
SpecLogs == Init /\ [][NextLogs]_vars

\* the calls of the storage service and updateProfilePhoto, with and without
\* a user id, in which no await but a deleteObject, a query or the read of
\* the previous photo path throws
NextStorage ==
  \/ \E userId \in {"u1", NoUser}, delFails \in BOOLEAN :
       \E photos \in FormPhotoLists(IF userId = NoUser THEN <<>>
                                    ELSE logDocs[userId]["log-1"].photos) :
         SaveLog(userId, "log-1", "log-1", 1, photos, NoFault, delFails)
  \/ \E userId \in {"u1", NoUser}, delFails \in BOOLEAN :
       DeleteLog(userId, "log-1", NoFault, delFails)
  \/ \E userId \in {"u1", NoUser}, fails \in BOOLEAN : GetLogs(userId, fails)
  \/ \E userId \in {"u1", NoUser} :
       SaveCustomBadge(userId, "custom-1", "custom-1", "data:image/png", "", FALSE)
  \/ \E userId \in {"u1", NoUser}, fails \in BOOLEAN :
       DeleteCustomBadge(userId, "custom-1", fails)
  \/ \E userId \in {"u1", NoUser}, fails \in BOOLEAN :
       GetUnlockedBadges(userId, fails)
  \/ \E uid \in {"u1", NoUser}, isDataUrl \in BOOLEAN,
        fault \in {NoFault, Fault("read", 0, FALSE)}, delFails \in BOOLEAN :
       UpdateProfilePhoto(uid, isDataUrl, fault, delFails)

SpecStorage == Init /\ [][NextStorage]_vars

\* the dive-log list of a user: logs without photos are saved with a number
\* the user typed, or from a new form, under an id not in use, with the number
\* it started with for the list fetched last (numbers up to MaxDiveNumber + 1);
\* logs are deleted, and the list is fetched
NextList ==
  \/ \E id \in LogIds, diveNumber \in DiveNumbers :
       SaveLog("u1", id, id, diveNumber, <<>>, NoFault, FALSE)
  \/ \E generated \in LogIds :
       /\ lastOp.op = "getLogs" /\ lastOp.outcome = "ok" /\ lastOp.io
       /\ ~logDocs["u1"][generated].exists
       /\ DefaultDiveNumber(lastOp.result) <= MaxDiveNumber + 1
       /\ SaveLog("u1", "", generated, DefaultDiveNumber(lastOp.result), <<>>,
                  NoFault, FALSE)
  \/ \E id \in LogIds : DeleteLog("u1", id, NoFault, FALSE)
  \/ \E fails \in BOOLEAN : GetLogs("u1", fails)

SpecList == Init /\ [][NextList]_vars

\* requests to the name-check handler while users sign in with Google and
\* their profile documents are created
NextNickname ==
  \/ \E method \in Methods, nameParam \in NameParams, fault \in LookupFaults :
       handler(method, nameParam, fault)
  \/ \E u \in Users, name \in {NameDiver, NameOceanPadded} : SignInWithGoogle(u, name)
  \/ \E u \in Users : TxGet(Eff(u))
  \/ \E u \in Users : TxCommit(Eff(u))
  \/ \E u \in Users : CpmGet(u, FALSE)
  \/ \E u \in Users : CpmSet(u, FALSE)

SpecNickname == Init /\ [][NextNickname]_vars

\* the profile document of a user: sign-in, the profile effect, the account
\* page and the admin dashboard
NextProfile ==
  \/ \E u \in ProfileUsers : SignInWithGoogle(u, <<>>)
  \/ \E u \in ProfileUsers : Logout(u)
  \/ \E u \in ProfileUsers, fails \in BOOLEAN : CpmGet(u, fails)
  \/ \E u \in ProfileUsers, fails \in BOOLEAN : CpmSet(u, fails)
  \/ \E u \in ProfileUsers : ProfileSnapshot(u)
  \/ \E u \in ProfileUsers : UpdateAccountInfo(u, FALSE, <<>>, TRUE)
  \/ \E u \in ProfileUsers, delFails \in BOOLEAN :
       UpdateProfilePhoto(u, TRUE, NoFault, delFails)
  \/ \E u \in ProfileUsers, fault \in SubmitFaults : ApplyForInstructor(u, fault)
  \/ LoadApplications
  \/ \E targetUid \in ProfileUsers : ApproveGet(targetUid)
  \/ \E fails \in BOOLEAN : ApproveUpdate(fails)

SpecProfile == Init /\ [][NextProfile]_vars

\* the profile documents under the calls of the profile specification and
\* approveInstructorApplication called for any uid
NextApproval ==
  \/ NextProfile
  \/ \E targetUid \in Users : approveInstructorApplication(targetUid)

SpecApproval == Init /\ [][NextApproval]_vars

\* the profile effect of the session: sign-in, logout, and the steps of
\* createUserProfileIfMissing and of the listener
NextLoading ==
  \/ \E u \in Users, name \in {<<>>, NameDiver} : SignInWithGoogle(u, name)
  \/ \E u \in Users : Logout(u)
  \/ \E u \in Users, fails \in BOOLEAN : CpmGet(u, fails)
  \/ \E u \in Users, fails \in BOOLEAN : CpmSet(u, fails)
  \/ \E u \in Users : TxGet(Eff(u))
  \/ \E u \in Users : TxCommit(Eff(u))
  \/ \E u \in Users : ProfileSnapshot(u)

\* every pending await of createUserProfileIfMissing settles, and a listener
\* is handed the snapshot of its document
EffectProgress ==
  \A u \in Users :
    /\ WF_vars(\E fails \in BOOLEAN : CpmGet(u, fails))
    /\ WF_vars(\E fails \in BOOLEAN : CpmSet(u, fails))
    /\ WF_vars(TxGet(Eff(u)))
    /\ WF_vars(TxCommit(Eff(u)))
    /\ WF_vars(ProfileSnapshot(u))

SpecLoading == Init /\ [][NextLoading]_vars /\ EffectProgress

(***************************************************************************)
(* Specification of one race: two users have called reserveDisplayName     *)
(* with names of the same key, which nobody holds, and both transactions   *)
(* are in flight                                                           *)
(***************************************************************************)
\* the registries earlier calls can have produced
Registries ==
  {f \in [Keys -> {NoDoc} \cup {ReservationDoc(u, n) : u \in Users, n \in DisplayNames}] :
     \A k \in Keys : f[k].exists => normalizeDisplayName(f[k].displayName) = k}

RaceInputs == {in \in ReserveInputs : ~in[3] /\ Truthy(normalizeDisplayName(in[1]))}

InFlight(in) ==
  [IdleProc EXCEPT !.pc = "tx_get", !.op = "reserveDisplayName", !.name = in[1],
                   !.prev = in[2], !.vOnly = in[3]]

InitRace ==
  /\ \E in1 \in RaceInputs, in2 \in RaceInputs :
       /\ normalizeDisplayName(in1[1]) = normalizeDisplayName(in2[1])
       /\ displayNames \in {f \in Registries : ~f[normalizeDisplayName(in1[1])].exists}
       /\ proc = [p \in Procs |->
                   IF p = Api("u1") THEN InFlight(in1)
                   ELSE IF p = Api("u2") THEN InFlight(in2)
                   ELSE IdleProc]
  /\ users = [u \in Users |-> NoProfile]
  /\ auth = [u \in Users |-> NoAccount]
  /\ sessUser = [u \in Users |-> FALSE]
  /\ sessProfile = [u \in Users |-> NoProfile]
  /\ profileLoading = [u \in Users |-> FALSE]
  /\ subscribed = [u \in Users |-> [current |-> FALSE, leaked |-> FALSE]]
  /\ calls = 2
  /\ BadgeInit /\ StoreInit /\ ReviewInit

NextRace ==
  \/ \E u \in Users : TxGet(Api(u))
  \/ \E u \in Users : TxCommit(Api(u))

SpecRace == InitRace /\ [][NextRace]_vars

(***************************************************************************)
(* Properties of the display-name registry                                 *)
(***************************************************************************)
DirectCall(u) == proc[Api(u)]
Done(u) == DirectCall(u).pc = "idle" /\ DirectCall(u).op = "reserveDisplayName"

\* C1 (SpecRace): two users call reserveDisplayName concurrently with names
\* of the same key that nobody holds.  Under every interleaving the calls
\* run to completion, exactly one returns true and the other throws
\* display_name_taken, and the record of the key then holds the winner's uid.
C1_ExactlyOneReserves ==
  LET a == DirectCall("u1")
      b == DirectCall("u2")
      rec == displayNames[normalizeDisplayName(a.name)]
  IN IF a.pc = "idle" /\ b.pc = "idle"
     THEN /\ \/ a.res = "ok" /\ b.res = "display_name_taken"
             \/ a.res = "display_name_taken" /\ b.res = "ok"
          /\ rec.exists
          /\ rec.uid = IF a.res = "ok" THEN "u1" ELSE "u2"
     ELSE ENABLED NextRace

\* C1 witness: both calls are over, u1 found the key taken, u2 holds it
C1_Witness ==
  /\ Done("u1") /\ Done("u2")
  /\ DirectCall("u1").res = "display_name_taken"
  /\ DirectCall("u2").res = "ok"
  /\ HolderOf(displayNames, DirectCall("u1").name) = "u2"

\* C2 (Spec): no two distinct users' profile documents hold display names
\* that normalize to the same non-empty key.
C2_ProfileNamesUnique ==
  \A u \in Users, v \in Users :
    (u # v /\ users[u].exists /\ users[v].exists
       /\ Truthy(normalizeDisplayName(users[u].displayName)))
    => normalizeDisplayName(users[u].displayName)
         # normalizeDisplayName(users[v].displayName)

\* a successful reserveDisplayName(u, B, {previousDisplayName: A}) with
\* normalize(A) non-empty and different from normalize(B) commits in this step
RenameCommits(u) ==
  /\ DirectCall(u).pc = "tx_commit"
  /\ proc'[Api(u)].pc = "idle" /\ proc'[Api(u)].res = "ok"
  /\ ~DirectCall(u).vOnly
  /\ Truthy(normalizeDisplayName(DirectCall(u).prev))
  /\ normalizeDisplayName(DirectCall(u).prev) # normalizeDisplayName(DirectCall(u).name)

\* C3 (SpecReserve): when reserveDisplayName(u, B, {previousDisplayName: A})
\* succeeds with normalize(A) # normalize(B), the committed registry has no
\* record keyed normalize(A) (so A no longer resolves to u) and the record
\* keyed normalize(B) holds u.
C3_PreviousReleased ==
  [][\A u \in Users :
       RenameCommits(u) =>
         /\ ~displayNames'[normalizeDisplayName(DirectCall(u).prev)].exists
         /\ HolderOf(displayNames', DirectCall(u).name) = u]_vars

\* C3 witness: u held A, its call for B with previousDisplayName A returned
\* true, A resolves to nobody and B to u
C3_Witness ==
  \E u \in Users :
    /\ Done(u) /\ DirectCall(u).res = "ok" /\ ~DirectCall(u).vOnly
    /\ DirectCall(u).prevUid = u
    /\ normalizeDisplayName(DirectCall(u).prev) # normalizeDisplayName(DirectCall(u).name)
    /\ HolderOf(displayNames, DirectCall(u).prev) = NoUid
    /\ HolderOf(displayNames, DirectCall(u).name) = u

\* C4 (SpecReserve): the step in which a call fails with display_name_taken
\* leaves the whole displayNames collection as it was.
C4_TakenChangesNothing ==
  [][\A u \in Users :
       (DirectCall(u).pc = "tx_get" /\ proc'[Api(u)].res = "display_name_taken")
       => displayNames' = displayNames]_vars

\* C4 witness: u's call failed with display_name_taken; the contested record
\* belongs to the other user and the record named by previousDisplayName,
\* which u holds, is still there
C4_Witness ==
  \E u \in Users :
    /\ Done(u) /\ DirectCall(u).res = "display_name_taken"
    /\ HolderOf(displayNames, DirectCall(u).name) \notin {u, NoUid}
    /\ Truthy(DirectCall(u).prev)
    /\ HolderOf(displayNames, DirectCall(u).prev) = u

\* empty or whitespace-only input, stated without normalizeDisplayName
IsBlank(s) == \A i \in 1..Len(s) : s[i] \in Whitespace

\* C5 (SpecReserve): a call whose display name is empty or whitespace-only
\* throws invalid_display_name in the calling step itself: no transaction is
\* started (the call never waits at tx.get or at the commit) and the
\* displayNames collection is unchanged.
C5_BlankNameRejected ==
  [][\A u \in Users :
       (DirectCall(u).pc = "idle" /\ calls' = calls + 1
          /\ proc'[Api(u)] # proc[Api(u)] /\ IsBlank(proc'[Api(u)].name))
       => /\ proc'[Api(u)].pc = "idle"
          /\ proc'[Api(u)].res = "invalid_display_name"
          /\ displayNames' = displayNames]_vars

\* C5 witness: a call with a whitespace-only name has thrown invalid_display_name
C5_Witness ==
  \E u \in Users :
    /\ Done(u) /\ DirectCall(u).name = NameBlank
    /\ DirectCall(u).res = "invalid_display_name"

\* the words of a string: its maximal runs of non-whitespace characters
RECURSIVE WordsOf(_, _)
WordsOf(s, word) ==
  IF s = <<>> THEN (IF word = <<>> THEN <<>> ELSE <<word>>)
  ELSE IF Head(s) \in Whitespace
       THEN (IF word = <<>> THEN <<>> ELSE <<word>>) \o WordsOf(Tail(s), <<>>)
       ELSE WordsOf(Tail(s), Append(word, Head(s)))

CasePairs == {<<"O", "o">>, <<"E", "e">>, <<"D", "d">>}
SameLetter(a, b) == a = b \/ <<a, b>> \in CasePairs \/ <<b, a>> \in CasePairs

\* s and t differ only in letter case, in leading or trailing whitespace and
\* in the whitespace between words
SameName(s, t) ==
  LET ws == WordsOf(s, <<>>)
      wt == WordsOf(t, <<>>)
  IN /\ Len(ws) = Len(wt)
     /\ \A i \in 1..Len(ws) :
          /\ Len(ws[i]) = Len(wt[i])
          /\ \A j \in 1..Len(ws[i]) : SameLetter(ws[i][j], wt[i][j])

RECURSIVE StringsUpTo(_)
StringsUpTo(n) ==
  IF n = 0 THEN {<<>>}
  ELSE LET shorter == StringsUpTo(n - 1)
       IN shorter \cup {Append(s, c) : s \in shorter, c \in Alphabet}

\* all strings over Alphabet of length at most MaxLen, and the names of the calls
ProbeStrings == StringsUpTo(MaxLen) \cup DisplayNames

\* the lower-case form of a letter, from CasePairs
FoldLetter(c) ==
  IF \E pr \in CasePairs : pr[1] = c
  THEN (CHOOSE pr \in CasePairs : pr[1] = c)[2]
  ELSE c

RECURSIVE JoinWords(_)
JoinWords(ws) ==
  IF ws = <<>> THEN <<>>
  ELSE IF Len(ws) = 1 THEN ws[1]
  ELSE ws[1] \o <<" ">> \o JoinWords(Tail(ws))

\* the words of s in lower case, separated by single spaces
Canonical(s) ==
  LET ws == WordsOf(s, <<>>)
  IN JoinWords([i \in 1..Len(ws) |-> [j \in 1..Len(ws[i]) |-> FoldLetter(ws[i][j])]])

NormalizationAgrees ==
  /\ \A s \in ProbeStrings : normalizeDisplayName(s) = Canonical(s)
  /\ \A s \in ProbeStrings, t \in DisplayNames :
       SameName(s, t) => normalizeDisplayName(s) = normalizeDisplayName(t)

\* C6 (SpecReserve): normalizeDisplayName yields the words of the name in
\* lower case separated by single spaces, so names that differ only in letter
\* case, outer whitespace or the whitespace between words have the same
\* normalized key, and a call
\* that reads the registry while a different user holds a record whose
\* display name is such a variant of its own fails with display_name_taken.
C6_VariantsCollide ==
  [][/\ NormalizationAgrees
     /\ \A u \in Users :
          (/\ DirectCall(u).pc = "tx_get"
           /\ proc'[Api(u)] # proc[Api(u)]
           /\ \E k \in Keys :
                /\ displayNames[k].exists
                /\ displayNames[k].uid # u
                /\ SameName(displayNames[k].displayName, DirectCall(u).name))
          => /\ proc'[Api(u)].pc = "idle"
             /\ proc'[Api(u)].res = "display_name_taken"]_vars

\* C6 witness: u1 holds "  O E  " and u2's call for "o e" failed with
\* display_name_taken
C6_Witness ==
  /\ displayNames[NameOceanLower] = ReservationDoc("u1", NameOceanPadded)
  /\ Done("u2") /\ DirectCall("u2").name = NameOceanLower
  /\ DirectCall("u2").res = "display_name_taken"


(***************************************************************************)
(* Badge claims                                                            *)
(***************************************************************************)
\* ids of the catalog badges in a result of getUnlockedBadges
CatalogIdsOf(badges) == {badges[i].id : i \in {j \in 1..Len(badges) : ~badges[j].custom}}
\* ids of the custom badges in a result of getUnlockedBadges
CustomIdsOf(badges) == {badges[i].id : i \in {j \in 1..Len(badges) : badges[j].custom}}
UnlockedFor(list) == CatalogIdsOf(getUnlockedBadges(list, customBadges, NoUser))

\* C7: the badge evaluator is monotonic: whenever the dive-log list grows by
\* an entry, every catalog badge that getUnlockedBadges returned for the
\* shorter list is returned for the longer one as well.
C7_EvaluatorMonotonic ==
  [][Len(logs') > Len(logs) =>
       /\ UnlockedFor(logs) \subseteq UnlockedFor(logs')
       /\ \A i \in 1..Len(AVAILABLE_BADGES) :
            Condition(AVAILABLE_BADGES[i], logs) => Condition(AVAILABLE_BADGES[i], logs')]_vars

\* a list that earned cold-blooded has grown by warmer dives and keeps it
C7_Witness ==
  /\ Len(logs) > MaxVaried
  /\ logs[1] = LogPlain
  /\ "cold-blooded" \in UnlockedFor(logs)
  /\ "cold-blooded" \notin UnlockedFor(<<logs[1]>>)

\* C8 as stated: for a user with zero dive logs getUnlockedBadges returns
\* no badge at all.
C8_ZeroLogsEmpty ==
  (unlocked.called /\ logs = <<>>) => unlocked.badges = <<>>

\* C8, amended: for a user with zero dive logs getUnlockedBadges returns no
\* catalog badge; it returns exactly the custom badges stored for the user
\* id it was given, hence nothing when there is none or no user id.
C8_ZeroLogsOnlyCustom ==
  (unlocked.called /\ logs = <<>>) =>
    /\ CatalogIdsOf(unlocked.badges) = {}
    /\ CustomIdsOf(unlocked.badges) =
         {id \in CustomIds : /\ unlocked.userId # NoUser
                             /\ customBadges[unlocked.userId][id].exists}
    /\ Len(unlocked.badges) = Cardinality(CustomIdsOf(unlocked.badges))

\* a user without dives who made a custom badge gets just that badge
C8_Witness ==
  /\ unlocked.called
  /\ logs = <<>>
  /\ Len(unlocked.badges) = 1
  /\ unlocked.badges[1].custom

\* the count badges and the number of logs each asks for
CountThreshold ==
  [b \in {"first-splash", "first-step", "adv-diver", "veteran-diver", "century-diver"} |->
     CASE b = "first-splash" -> 1 [] b = "first-step" -> 4 [] b = "adv-diver" -> 20
       [] b = "veteran-diver" -> 50 [] b = "century-diver" -> 100]

\* C9: getUnlockedBadges returns a count badge with threshold N exactly when
\* the list has at least N logs; so for a list of one log it returns
\* first-splash and none of first-step, adv-diver, veteran-diver, century-diver.
C9_CountBadges ==
  unlocked.called =>
    /\ \A b \in DOMAIN CountThreshold :
         b \in CatalogIdsOf(unlocked.badges) <=> Len(logs) >= CountThreshold[b]
    /\ Len(logs) = 1 =>
         CatalogIdsOf(unlocked.badges) \cap DOMAIN CountThreshold = {"first-splash"}

\* the badges of a list of exactly one log have been computed
C9_Witness ==
  /\ unlocked.called
  /\ Len(logs) = 1
  /\ "first-splash" \in CatalogIdsOf(unlocked.badges)
  /\ "first-step" \notin CatalogIdsOf(unlocked.badges)

StoredBadges == {ub \in Users \X CustomIds : customBadges[ub[1]][ub[2]].exists}

\* C10: a successful saveCustomBadge stores the badge; a stored custom badge
\* has unlockedAt set, stays stored until deleteCustomBadge removes it, and
\* every result of getUnlockedBadges for its user contains it with that
\* unlockedAt, whatever the dive-log list is.
C10_CustomAlwaysUnlocked ==
  [][/\ \A ub \in StoredBadges :
          (customBadges'[ub[1]][ub[2]].exists
             \/ \E fails \in BOOLEAN : DeleteCustomBadge(ub[1], ub[2], fails))
     /\ \A ub \in Users \X CustomIds :
          customBadges'[ub[1]][ub[2]].exists =>
            /\ customBadges'[ub[1]][ub[2]].unlockedAt # ""
            /\ (unlocked'.called /\ unlocked'.userId = ub[1]) =>
                 \E i \in 1..Len(unlocked'.badges) :
                   unlocked'.badges[i] =
                     UnlockedBadge(ub[2], customBadges'[ub[1]][ub[2]].unlockedAt, TRUE)
     /\ \A u \in Users, id \in CustomIds, icon \in {"data:image/png", "https://icon"},
          unlockedAt \in {"", "t0"} :
          SaveCustomBadge(u, id, id, icon, unlockedAt, FALSE) =>
            customBadges'[u][id].exists]_vars

\* a custom badge saved without unlockedAt is returned for a user whose
\* dives earn no deep-diver badge
C10_Witness ==
  /\ unlocked.called
  /\ unlocked.userId \in Users
  /\ logs = <<LogPlain>>
  /\ \E i \in 1..Len(unlocked.badges) :
       unlocked.badges[i].custom /\ unlocked.badges[i].unlockedAt = "now"


\* C11: getUnlockedBadges changes nothing: the log list, the stored logs, the
\* custom badges and the blobs are as before the call; and a catalog badge is
\* in the result exactly when its own condition holds for the log list,
\* whichever user id is given and whatever custom badges are stored.
C11_EvaluationPure ==
  [][unlocked'.called =>
       /\ UNCHANGED <<logs, logDocs, customBadges, blobs>>
       /\ CatalogIdsOf(unlocked'.badges) =
            {AVAILABLE_BADGES[i] : i \in {j \in 1..Len(AVAILABLE_BADGES) :
                                          Condition(AVAILABLE_BADGES[j], logs)}}]_vars

\* a result that holds catalog badges next to a custom badge
C11_Witness ==
  /\ unlocked.called
  /\ CustomIdsOf(unlocked.badges) # {}
  /\ {"first-splash", "globe-trotter"} \subseteq CatalogIdsOf(unlocked.badges)
  /\ "night-owl" \notin CatalogIdsOf(unlocked.badges)

(***************************************************************************)
(* Dive-log storage claims                                                 *)
(***************************************************************************)
SetOf(seq) == {seq[i] : i \in 1..Len(seq)}
\* the storage paths under logs/{userId}/{logId}/
UnderLog(store, userId, logId) ==
  {path \in store : Len(path) = 4 /\ SubSeq(path, 1, 3) = <<"logs", userId, logId>>}
\* a step that is a call of `op` returning successfully
Returned(op) == lastOp'.op = op /\ lastOp'.outcome = "ok"

\* C12 as stated: when deleteLog completes for an existing log, the record
\* is gone and no blob listed in its photoStoragePaths remains.
C12_NoOrphansAfterDelete ==
  [][\A u \in Users, id \in LogIds :
       (Returned("deleteLog") /\ logDocs[u][id].exists /\ ~logDocs'[u][id].exists) =>
         SetOf(logDocs[u][id].photoStoragePaths) \cap blobs' = {}]_vars

\* C12, amended: when deleteLog completes for an existing log, the record is
\* gone, and unless a deleteObject of the call failed and was logged, no blob
\* listed in the record's photoStoragePaths remains.
C12_NoOrphansUnlessDeleteFailed ==
  [][\A u \in Users, id \in LogIds :
       /\ (Returned("deleteLog") /\ logDocs[u][id].exists /\ logDocs' # logDocs) =>
            /\ ~logDocs'[u][id].exists
            /\ ~lastOp'.warned =>
                 SetOf(logDocs[u][id].photoStoragePaths) \cap blobs' = {}
       /\ (Returned("deleteLog") /\ logDocs' = logDocs) => ~logDocs[u][id].exists]_vars

\* a log with a photo blob has been deleted together with its blob
C12_Witness ==
  /\ lastOp.op = "deleteLog" /\ lastOp.outcome = "ok" /\ ~lastOp.warned
  /\ uploads > 0
  /\ blobs = {}
  /\ \A u \in Users, id \in LogIds : ~logDocs[u][id].exists

\* C13: after a successful saveLog no photo of the stored record is an
\* inline image, every inline image given was uploaded to a new path under
\* logs/{userId}/{logId}/, and each new path is in the record's
\* photoStoragePaths at the place of its download reference in photos.
C13_InlineImagesUploaded ==
  [][Returned("saveLog") =>
       \E u \in Users, id \in LogIds :
         LET doc == logDocs'[u][id]
             new == blobs' \ blobs
         IN /\ doc.exists
            /\ \A i \in 1..Len(doc.photos) : doc.photos[i].kind # "data"
            /\ Len(doc.photoStoragePaths) = Len(doc.photos)
            /\ Cardinality(new) = lastOp'.inline
            /\ new \subseteq UnderLog(blobs', u, id)
            /\ \A path \in new :
                 \E i \in 1..Len(doc.photos) :
                   doc.photos[i] = UrlPhoto(path) /\ doc.photoStoragePaths[i] = path]_vars

\* a log was saved with an inline image and a photo it already had
C13_Witness ==
  /\ lastOp.op = "saveLog" /\ lastOp.outcome = "ok" /\ lastOp.inline = 1
  /\ \E u \in Users, id \in LogIds :
       /\ Len(logDocs[u][id].photos) = MaxPhotos
       /\ logDocs[u][id].photoStoragePaths[MaxPhotos] = LogPath(u, id, uploads)
       /\ SetOf(logDocs[u][id].photoStoragePaths) \subseteq blobs

\* C14: when a successful saveLog with no failed deleteObject replaces a log
\* whose blobs were all referenced by its record, the blob of every photo of
\* the previous version that is not in the new photo list is deleted, and
\* every blob under logs/{userId}/{logId}/ is referenced by the new
\* photoStoragePaths.
C14_RemovedBlobsDeleted ==
  [][\A u \in Users, id \in LogIds :
       LET old == logDocs[u][id]
           new == logDocs'[u][id]
       IN (/\ Returned("saveLog") /\ ~lastOp'.warned
           /\ old.exists
           /\ UnderLog(blobs, u, id) = SetOf(old.photoStoragePaths)) =>
            /\ \A i \in 1..Len(old.photos) :
                 old.photos[i] \notin SetOf(new.photos) =>
                   old.photos[i].path \notin blobs'
            /\ UnderLog(blobs', u, id) \subseteq SetOf(new.photoStoragePaths)]_vars

\* C16: a saveLog in which the read of the existing record or an upload
\* throws ends with that error, no upload is made a second time, and no log
\* document is written: every stored record has the fields it had before.
C16_FailedSaveWritesNothing ==
  [][(lastOp'.op = "saveLog" /\ lastOp'.outcome = "error") =>
       /\ logDocs' = logDocs
       /\ lastOp'.io
       /\ uploads' <= uploads + lastOp'.inline]_vars

\* a saveLog on a stored log failed at its upload, after the blob of the
\* photo it was replacing had been deleted
C16_Witness ==
  /\ lastOp.op = "saveLog" /\ lastOp.outcome = "error" /\ lastOp.inline > 0
  /\ \E u \in Users, id \in LogIds :
       /\ logDocs[u][id].exists
       /\ logDocs[u][id].photoStoragePaths # <<>>
       /\ ~(SetOf(logDocs[u][id].photoStoragePaths) \subseteq blobs)

\* C15: a deleteObject that throws during saveLog, deleteLog,
\* deleteCustomBadge or updateProfilePhoto is swallowed: when nothing else
\* fails, the call returns successfully and has written (or deleted) its
\* document.
C15_CleanupFailureSwallowed ==
  [][/\ lastOp'.op = "saveLog" =>
          \A photos \in FormPhotoLists(logDocs["u1"]["log-1"].photos) :
            SaveLog("u1", "log-1", "log-1", 1, photos, NoFault, TRUE) =>
              /\ Returned("saveLog")
              /\ logDocs'["u1"]["log-1"].exists
              /\ Len(logDocs'["u1"]["log-1"].photos) = Len(photos)
     /\ lastOp'.op = "deleteLog" =>
          (DeleteLog("u1", "log-1", NoFault, TRUE) =>
             /\ Returned("deleteLog")
             /\ ~logDocs'["u1"]["log-1"].exists)
     /\ lastOp'.op = "none" =>
          (DeleteCustomBadge("u1", "custom-1", TRUE) =>
             /\ ~customBadges'["u1"]["custom-1"].exists
             /\ blobs' = blobs)
     /\ lastOp'.op = "updateProfilePhoto" =>
          \A fault \in {NoFault, Fault("read", 0, FALSE)} :
            UpdateProfilePhoto("u1", TRUE, fault, TRUE) =>
              /\ Returned("updateProfilePhoto")
              /\ users'["u1"].exists
              /\ photoPath'["u1"] = AvatarPath("u1", uploads')
              /\ photoPath'["u1"] \in blobs']_vars

\* updateProfilePhoto returned although the deleteObject of the previous
\* photo threw: the profile points to the new blob, the previous one is left
C15_Witness ==
  /\ lastOp.op = "updateProfilePhoto" /\ lastOp.outcome = "ok" /\ lastOp.warned
  /\ photoPath["u1"] = AvatarPath("u1", uploads)
  /\ AvatarPath("u1", uploads - 1) \in blobs

\* C17: a call without a user id is halted before any read or write: saveLog,
\* deleteLog, saveCustomBadge and deleteCustomBadge throw 'User not
\* authenticated' and updateProfilePhoto throws, with no database or storage
\* access and every store unchanged; getLogs and getCustomBadges return the
\* empty list without a query, so a query that would fail is not noticed.
C17_NoUserHalts ==
  [][/\ lastOp'.outcome \in {NotAuthenticated, LoginRequired} =>
          /\ ~lastOp'.io
          /\ UNCHANGED <<logDocs, customBadges, blobs, uploads, users, photoPath>>
     /\ \A flag \in BOOLEAN :
          /\ lastOp'.op = "saveLog" =>
               \A photos \in FormPhotoLists(<<>>) :
                 SaveLog(NoUser, "log-1", "log-1", 1, photos, NoFault, flag) =>
                   lastOp' = OpResult("saveLog", NotAuthenticated, FALSE, FALSE,
                                      DataCount(photos), <<>>)
          /\ lastOp'.op = "deleteLog" =>
               (DeleteLog(NoUser, "log-1", NoFault, flag) =>
                  lastOp' = OpResult("deleteLog", NotAuthenticated, FALSE, FALSE, 0, <<>>))
          /\ lastOp'.op \in {"none", "saveCustomBadge"} =>
               (SaveCustomBadge(NoUser, "custom-1", "custom-1", "data:image/png", "", FALSE) =>
                  lastOp' = OpResult("saveCustomBadge", NotAuthenticated, FALSE, FALSE, 0, <<>>))
          /\ lastOp'.op \in {"none", "deleteCustomBadge"} =>
               (DeleteCustomBadge(NoUser, "custom-1", flag) =>
                  lastOp' = OpResult("deleteCustomBadge", NotAuthenticated, FALSE, FALSE, 0, <<>>))
          /\ lastOp'.op = "updateProfilePhoto" =>
               \A isDataUrl \in BOOLEAN, fault \in {NoFault, Fault("read", 0, FALSE)} :
                 UpdateProfilePhoto(NoUser, isDataUrl, fault, flag) =>
                   lastOp'.outcome = LoginRequired
          /\ lastOp'.op = "getLogs" =>
               (GetLogs(NoUser, flag) =>
                  lastOp' = OpResult("getLogs", "ok", FALSE, FALSE, 0, <<>>))
          /\ lastOp'.op = "none" =>
               (GetUnlockedBadges(NoUser, flag) =>
                  unlocked'.called /\ CustomIdsOf(unlocked'.badges) = {})
     /\ getCustomBadges(customBadges, NoUser) = <<>>]_vars

\* a deleteLog without a user id was halted while the stores hold a log with
\* its photo, a custom badge with its icon and a profile photo
C17_Witness ==
  /\ lastOp.op = "deleteLog" /\ lastOp.outcome = NotAuthenticated
  /\ logDocs["u1"]["log-1"].exists
  /\ logDocs["u1"]["log-1"].photoStoragePaths # <<>>
  /\ customBadges["u1"]["custom-1"].exists
  /\ photoPath["u1"] # NoPath

(***************************************************************************)
(* Profile document claims                                                 *)
(***************************************************************************)
\* the application status of a profile document; 'none' when there is none
StatusOf(doc) == IF doc.status = "" THEN "none" ELSE doc.status
\* a step in which a submission of u is written
Submitted(u) == applications'[u].certificatePath # applications[u].certificatePath
                  /\ review' = review
\* a step in which the approval of u's application is written
Approved(u) == review.pc = "approve_update" /\ review.target = u
                 /\ review'.pc = "load"

\* C18: the status of an application changes only from none or rejected to
\* pending and from pending to approved or rejected; an approval is written
\* only onto a pending application, and a submission only onto an
\* application that is neither pending nor approved.
C18_StatusTransitions ==
  [][\A u \in Users :
       /\ StatusOf(users'[u]) # StatusOf(users[u]) =>
            <<StatusOf(users[u]), StatusOf(users'[u])>> \in
              {<<"none", "pending">>, <<"rejected", "pending">>,
               <<"pending", "approved">>, <<"pending", "rejected">>}
       /\ Approved(u) => StatusOf(users[u]) = "pending"
       /\ Submitted(u) => StatusOf(users[u]) \notin {"pending", "approved"}]_vars

\* C19: once a role is stored in a profile document, only the write of an
\* approval changes it, however the calls of createUserProfileIfMissing,
\* updateProfileFields, updateProfilePhoto, submitInstructorApplication and
\* approveInstructorApplication interleave; an instructor stays instructor.
C19_RoleOnlyByApproval ==
  [][\A u \in Users :
       (users[u].role # "" /\ users'[u].role # users[u].role) =>
         /\ Approved(u)
         /\ users[u].role # "instructor"]_vars

\* C20: createUserProfileIfMissing writes the profile only when its read
\* found no document, and what it writes has role 'diver' and application
\* status 'none'; when the read finds a document, the call writes nothing
\* and every field of every profile is as before.
C20_CreatesOnlyWhenMissing ==
  [][\A u \in Users :
       LET call == proc[Eff(u)]
           after == proc'[Eff(u)]
       IN /\ (call.pc = "cpm_get" /\ after # call /\ users[u].exists) =>
               /\ after.pc # "cpm_set"
               /\ UNCHANGED <<users, applications, photoPath>>
          /\ (call.pc = "cpm_get" /\ after.pc = "cpm_set") =>
               /\ ~users[u].exists
               /\ UNCHANGED <<users, applications, photoPath>>
          /\ (call.pc = "cpm_set" /\ after # call) =>
               /\ users'[u] \in {users[u],
                                 ProfileDoc(call.profName, "diver", "none")}
               /\ \A other \in Users \ {u} : users'[other] = users[other]
               /\ UNCHANGED <<applications, photoPath>>]_vars

\* the profile that createUserProfileIfMissing created has since received an
\* application, and the call runs again for a new sign-in
C20_Witness ==
  /\ proc[Eff("u1")].pc = "cpm_get" /\ ~proc[Eff("u1")].stale
  /\ sessUser["u1"]
  /\ calls = 2
  /\ users["u1"].role = "diver"
  /\ users["u1"].status = "pending"

(***************************************************************************)
(* Dive-log list claims                                                    *)
(***************************************************************************)
\* C21: getLogs returns exactly the user's logs, ordered by diveNumber
\* descending, so that the first carries the greatest diveNumber; and the
\* number a new form starts with, lastDiveNumber + 1, is greater than the
\* diveNumber of every log of the list.
C21_ListDescending ==
  [][(Returned("getLogs") /\ lastOp'.io) =>
       LET list == lastOp'.result
           stored == {id \in LogIds : logDocs["u1"][id].exists}
       IN /\ {list[i].id : i \in 1..Len(list)} = stored
          /\ Len(list) = Cardinality(stored)
          /\ \A i \in 1..Len(list) :
               /\ list[i].diveNumber = logDocs["u1"][list[i].id].diveNumber
               /\ list[1].diveNumber >= list[i].diveNumber
               /\ DefaultDiveNumber(list) > list[i].diveNumber
          /\ \A i, j \in 1..Len(list) :
               i < j => list[i].diveNumber >= list[j].diveNumber
          /\ list = <<>> => DefaultDiveNumber(list) = 1]_vars

\* the list of three logs, of which one was saved from a new form with the
\* number after the greatest and one was stored before it with a lower one
C21_Witness ==
  /\ lastOp.op = "getLogs" /\ lastOp.outcome = "ok"
  /\ Len(lastOp.result) = 3
  /\ lastOp.result[1].diveNumber = MaxDiveNumber + 1
  /\ lastOp.result[1].id = "log-1"
  /\ lastOp.result[3].diveNumber < lastOp.result[2].diveNumber

(***************************************************************************)
(* Name-check handler claim                                                *)
(***************************************************************************)
\* C22: the name-check handler sends exactly one response per request: 405
\* for a method other than GET, whatever the parameter; 400 when the name is
\* missing or blank after trimming; 500 when the lookup throws; otherwise
\* 200 with a boolean `available`; no query is issued on the 405 and 400
\* paths, and nothing is written.
C22_OneResponse ==
  [][lastOp'.op = "checkNickname" =>
     \A method \in Methods, nameParam \in NameParams, fault \in LookupFaults :
       handler(method, nameParam, fault) =>
         LET sent == lastOp'.result
             blank == \/ nameParam.kind = "undefined"
                      \/ nameParam.values = <<>>
                      \/ \A i \in 1..Len(nameParam.values[1]) :
                           nameParam.values[1][i] \in Whitespace
         IN /\ Len(sent) = 1
            /\ sent[1].status =
                 IF method # "GET" THEN 405
                 ELSE IF blank THEN 400
                 ELSE IF fault # "none" THEN 500
                 ELSE 200
            /\ sent[1].status = 200 => sent[1].body \in BOOLEAN
            /\ sent[1].status \in {405, 400} => ~lastOp'.io
            /\ UNCHANGED <<users, displayNames>>]_vars

\* a GET for a padded name that a stored profile carries answers 200 with
\* available false
C22_Witness ==
  /\ lastOp.op = "checkNickname"
  /\ lastOp.result = <<Response(200, FALSE)>>
  /\ \E u \in Users : users[u].exists /\ users[u].displayName = NameDiver

(***************************************************************************)
(* Registry ownership claim                                                *)
(***************************************************************************)
\* C23 as stated: a reservation record that points at user a disappears or
\* changes owner only in the commit of a call made with a's uid.
C23_OnlyOwnerReleases ==
  [][\A k \in Keys, a \in Users :
       (/\ displayNames[k].exists /\ displayNames[k].uid = a
        /\ ~(displayNames'[k].exists /\ displayNames'[k].uid = a))
       => \E th \in Threads :
            /\ proc[<<a, th>>].pc = "tx_commit"
            /\ proc'[<<a, th>>] # proc[<<a, th>>]]_vars

(***************************************************************************)
(* Session teardown claim                                                  *)
(***************************************************************************)
\* C24 as stated: while a user is signed out, the session's profile is null
\* and no profile listener of that user is active.
C24_SignedOutTornDown ==
  \A u \in Users :
    ~sessUser[u] =>
      /\ sessProfile[u] = NoProfile
      /\ ~subscribed[u].current
      /\ ~subscribed[u].leaked

(***************************************************************************)
(* Registration claim                                                      *)
(***************************************************************************)
\* C25 as stated: once a registerWithEmail call with a display name has
\* settled, the uid either has its account and the display name reserved to
\* it, or has no account, no reservation record and no profile document.
\* (Only a failed registration removes an account, and only registration
\* with a name runs updateProfile or the reservation on the api thread.)
C25_RegistrationAllOrNothing ==
  \A u \in Users :
    (proc[Api(u)].pc = "idle" /\ proc[Eff(u)].pc = "idle" /\ ~auth[u].exists)
    => /\ ~users[u].exists
       /\ \A k \in Keys : ~(displayNames[k].exists /\ displayNames[k].uid = u)

(***************************************************************************)
(* Photo path claims                                                       *)
(***************************************************************************)
\* every photo of the record is backed by the existing blob that its entry
\* of photoStoragePaths names
Backed(record, store) ==
  /\ Len(record.photoStoragePaths) = Len(record.photos)
  /\ \A i \in 1..Len(record.photos) :
       /\ record.photoStoragePaths[i] = record.photos[i].path
       /\ record.photoStoragePaths[i] \in store

\* C26 as stated: a successful saveLog on a log whose photos were all backed
\* by their blobs deletes the blob of no photo it keeps, and every non-empty
\* path of the photoStoragePaths it stores names an existing blob, which is
\* the blob behind the photo at the same index.
C26_KeptPhotosBacked ==
  [][\A u \in Users, id \in LogIds :
       LET old == logDocs[u][id]
           new == logDocs'[u][id]
       IN (Returned("saveLog") /\ new # old /\ Backed(old, blobs)) =>
            /\ \A i \in 1..Len(new.photos) :
                 new.photos[i] \in SetOf(old.photos) =>
                   new.photos[i].path \in blobs'
            /\ \A i \in 1..Len(new.photoStoragePaths) :
                 new.photoStoragePaths[i] # NoPath =>
                   /\ new.photoStoragePaths[i] \in blobs'
                   /\ new.photos[i].path = new.photoStoragePaths[i]]_vars

(***************************************************************************)
(* Loading-screen claim                                                    *)
(***************************************************************************)
\* C27 as stated: whenever profileLoading is true it eventually becomes
\* false, provided every pending step of the profile effect is taken.
C27_LoadingEnds ==
  \A u \in Users : profileLoading[u] ~> ~profileLoading[u]

(***************************************************************************)
(* Distinct-value badge claim                                              *)
(***************************************************************************)
\* the number of entries of `values` that no earlier entry equals
FirstOccurrences(values) ==
  Cardinality({i \in 1..Len(values) : \A j \in 1..(i - 1) : values[j] # values[i]})

LocationsOf(list) == [i \in 1..Len(list) |-> list[i].location]

\* the sighting names of all logs, one after the other
RECURSIVE SightingsOf(_)
SightingsOf(list) ==
  IF list = <<>> THEN <<>>
  ELSE Head(list).marineLifeSightings \o SightingsOf(Tail(list))

\* C28: getUnlockedBadges returns globe-trotter exactly when the logs have
\* at least 3 distinct locations, and marine-biologist exactly when the
\* sightings of all logs together have at least 10 distinct names; and a
\* further log whose location (whose sighting names) are already in the list
\* leaves globe-trotter (marine-biologist) as it was.
C28_DistinctValues ==
  /\ [](unlocked.called =>
          /\ "globe-trotter" \in CatalogIdsOf(unlocked.badges)
               <=> FirstOccurrences(LocationsOf(logs)) >= 3
          /\ "marine-biologist" \in CatalogIdsOf(unlocked.badges)
               <=> FirstOccurrences(SightingsOf(logs)) >= 10)
  /\ [][Len(logs') > Len(logs) =>
          /\ SetOf(LocationsOf(logs')) = SetOf(LocationsOf(logs)) =>
               (GlobeTrotter(logs') <=> GlobeTrotter(logs))
          /\ SetOf(SightingsOf(logs')) = SetOf(SightingsOf(logs)) =>
               (MarineBiologist(logs') <=> MarineBiologist(logs))]_vars

\* three logs at two locations with eleven sightings of five species earn
\* neither badge
C28_Witness ==
  /\ unlocked.called
  /\ Len(logs) = 3
  /\ Len(SightingsOf(logs)) = 11
  /\ FirstOccurrences(LocationsOf(logs)) = 2
  /\ "globe-trotter" \notin CatalogIdsOf(unlocked.badges)
  /\ "marine-biologist" \notin CatalogIdsOf(unlocked.badges)

(***************************************************************************)
(* Approval claim                                                          *)
(***************************************************************************)
\* C29: in every state a profile whose application status is 'approved' has
\* role 'instructor'; the write of an approval sets both in one step; a call
\* of approveInstructorApplication for a uid without a profile document
\* writes nothing and no update follows; the status becomes 'approved' only
\* by the write of an approval, and the role does not change while the
\* status stays 'approved'.
C29_ApprovedIsInstructor ==
  /\ [](\A u \in Users : users[u].status = "approved" => users[u].role = "instructor")
  /\ [][\A u \in Users :
          /\ Approved(u) =>
               users'[u].role = "instructor" /\ users'[u].status = "approved"
          /\ (approveInstructorApplication(u) /\ ~users[u].exists) =>
               /\ review'.pc # "approve_update"
               /\ UNCHANGED <<users, applications>>
          /\ (users'[u].status = "approved" /\ users[u].status # "approved") =>
               Approved(u)
          /\ (users[u].status = "approved" /\ users'[u].status = "approved") =>
               users'[u].role = users[u].role]_vars

\* the application of a diver has been approved and the dashboard has
\* reloaded its list
C29_Witness ==
  /\ users["u1"].status = "approved"
  /\ users["u1"].role = "instructor"
  /\ applications["u1"].reviewedBy = Reviewer
  /\ review = IdleReview
  /\ "u1" \notin adminList

(***************************************************************************)
(* Photo list claim                                                        *)
(***************************************************************************)
\* C30: every stored log record has as many photoStoragePaths as photos; and
\* a successful saveLog with an empty photo list stores both as empty and
\* calls deleteObject for every non-empty path the record held: the blob is
\* gone, or the failure of the deletion was logged.
C30_PathsMatchPhotos ==
  /\ [](\A u \in Users, id \in LogIds :
          Len(logDocs[u][id].photoStoragePaths) = Len(logDocs[u][id].photos))
  /\ [][Returned("saveLog") =>
          \A id \in {"log-1", ""}, delFails \in BOOLEAN :
            SaveLog("u1", id, "log-1", 1, <<>>, NoFault, delFails) =>
              LET old == logDocs["u1"]["log-1"]
                  new == logDocs'["u1"]["log-1"]
              IN /\ new.exists
                 /\ new.photos = <<>>
                 /\ new.photoStoragePaths = <<>>
                 /\ \A i \in 1..Len(old.photoStoragePaths) :
                      old.photoStoragePaths[i] # NoPath =>
                        IF delFails THEN lastOp'.warned
                        ELSE old.photoStoragePaths[i] \notin blobs']_vars

\* a log that had two photos was saved without photos; the deletions were
\* requested and failed, so the record is empty and its blobs are still there
C30_Witness ==
  /\ lastOp.op = "saveLog" /\ lastOp.outcome = "ok"
  /\ lastOp.inline = 0 /\ lastOp.warned
  /\ logDocs["u1"]["log-1"].exists
  /\ logDocs["u1"]["log-1"].photos = <<>>
  /\ logDocs["u1"]["log-1"].photoStoragePaths = <<>>
  /\ Cardinality(UnderLog(blobs, "u1", "log-1")) = 2

====
